---------------------------- MODULE Spec2Model ----------------------------
(***************************************************************************)
(* Sager Weathercaster (Home Assistant custom component): a model of the   *)
(* coordinator's refresh cycle and of the pure calculators it is built     *)
(* from (custom_components/sager_weathercaster/coordinator.py, const.py,   *)
(* open_meteo.py).                                                         *)
(*                                                                         *)
(* Units.  The code computes on Python floats; the model computes on       *)
(* integers in fixed units:                                                *)
(*   pressure, pressure change   hundredths of hPa (1029.46 hPa = 102946)  *)
(*   wind directions, elevation  whole degrees                             *)
(*   wind speed                  whole km/h                                *)
(*   cloud cover                 whole percent                             *)
(*   temperature                 whole degrees Celsius                     *)
(*   latitude                    tenths of a degree (66.6 = 666)           *)
(*   illuminance                 whole lux                                 *)
(*   time                        minutes                                   *)
(* An optional value (Python None or a value) is a record                  *)
(* [some |-> BOOLEAN, v |-> Int].                                          *)
(***************************************************************************)
EXTENDS Integers, Sequences, FiniteSets, TLC

VARIABLES
    \* ---- SagerWeathercasterCoordinator and its environment ----
    latitude,               \* hass.config.latitude (tenths of a degree)
    config_data,            \* the configuration keys that name an entity
    hass,                   \* hass.states: the state of each entity
    open_meteo_data,        \* self._open_meteo_data
    open_meteo_last_fetch,  \* self._open_meteo_last_fetch
    open_meteo_failures,    \* self._open_meteo_failures
    last_update_success,    \* DataUpdateCoordinator.last_update_success
    data,                   \* DataUpdateCoordinator.data: the last result
    now,                    \* dt_util.utcnow(), minutes
    fetch_outcome,          \* what the last cycle's external fetch did
    \* ---- one call of a pure calculator: its arguments and its result ----
    call

vars == <<latitude, config_data, hass, open_meteo_data, open_meteo_last_fetch,
          open_meteo_failures, last_update_success, data, now, fetch_outcome,
          call>>

coordinator_vars == <<latitude, config_data, hass, open_meteo_data,
                      open_meteo_last_fetch, open_meteo_failures,
                      last_update_success, data, now, fetch_outcome>>

-----------------------------------------------------------------------------
(* Helpers *)

None == [some |-> FALSE, v |-> 0]

Some(x) == [some |-> TRUE, v |-> x]

Abs(x) == IF x < 0 THEN -x ELSE x

MinOf(a, b) == IF a < b THEN a ELSE b

MaxOf(a, b) == IF a > b THEN a ELSE b

SetMin(S) == CHOOSE x \in S : \A y \in S : x <= y

SetMax(S) == CHOOSE x \in S : \A y \in S : x >= y

\* hundredths per unit (hPa -> hundredths of hPa)
Centi == 10 * 10

-----------------------------------------------------------------------------
(* const.py *)

CONF_PRESSURE_ENTITY == "pressure_entity"

CONF_WIND_DIR_ENTITY == "wind_dir_entity"

CONF_WIND_SPEED_ENTITY == "wind_speed_entity"

CONF_WIND_HISTORIC_ENTITY == "wind_historic_entity"

CONF_PRESSURE_CHANGE_ENTITY == "pressure_change_entity"

CONF_CLOUD_COVER_ENTITY == "cloud_cover_entity"

CONF_RAINING_ENTITY == "raining_entity"

CONF_TEMPERATURE_ENTITY == "temperature_entity"

UPDATE_INTERVAL_MINUTES == 10

\* 2.0 degrees Celsius
TEMP_THRESHOLD_FLURRIES == 2

\* 66.6, 23.5, -23.5, -66.6 degrees, in tenths
LATITUDE_NORTHERN_POLAR == 666

LATITUDE_NORTHERN_TROPIC == 235

LATITUDE_SOUTHERN_TROPIC == -235

LATITUDE_SOUTHERN_POLAR == -666

ZONE_DIRECTIONS_NT == <<"N", "NE", "E", "SE", "S", "SW", "W", "NW">>

ZONE_DIRECTIONS_NP == <<"S", "SW", "W", "NW", "N", "NE", "E", "SE">>

ZONE_DIRECTIONS_ST == <<"S", "SE", "E", "NE", "N", "NW", "W", "SW">>

ZONE_DIRECTIONS_SP == <<"N", "NW", "W", "SW", "S", "SE", "E", "NE">>

WIND_TREND_STEADY == "STEADY"

WIND_TREND_VEERING == "VEERING"

WIND_TREND_BACKING == "BACKING"

PRESSURE_TREND_RISING_RAPIDLY == "Rising Rapidly"

PRESSURE_TREND_RISING_SLOWLY == "Rising Slowly"

PRESSURE_TREND_NORMAL == "Normal"

PRESSURE_TREND_DECREASING_SLOWLY == "Decreasing Slowly"

PRESSURE_TREND_DECREASING_RAPIDLY == "Decreasing Rapidly"

CLOUD_LEVEL_CLEAR == "Clear"

CLOUD_LEVEL_PARTLY_CLOUDY == "Partly Cloudy"

CLOUD_LEVEL_MOSTLY_CLOUDY == "Mostly Cloudy"

CLOUD_LEVEL_OVERCAST == "Overcast"

CLOUD_LEVEL_RAINING == "Raining"

\* Validation ranges, in the source's units (hPa, degrees, km/h, hPa, %)
PRESSURE_MIN == 900

PRESSURE_MAX == 1100

WIND_DIR_MIN == 0

WIND_DIR_MAX == 360

WIND_SPEED_MIN == 0

WIND_SPEED_MAX == 300

PRESSURE_CHANGE_MIN == -50

PRESSURE_CHANGE_MAX == 50

CLOUD_COVER_MIN == 0

CLOUD_COVER_MAX == 100

\* Python index i of the list is index i + 1 of the sequence
FORECAST_CODES ==
    <<"a", "b", "c", "d", "e", "f", "g", "h", "j", "k", "l", "m", "n", "p",
      "r", "s", "t", "u", "w", "x", "y">>

SHOWER_FORECAST_CODES == {"g", "j", "k", "l", "r", "s", "t", "u", "w"}

FORECAST_CONDITIONS ==
    [a |-> "sunny", b |-> "sunny", c |-> "sunny",
     d |-> "partlycloudy", e |-> "partlycloudy", f |-> "partlycloudy",
     g |-> "cloudy", g1 |-> "cloudy", g2 |-> "snowy", h |-> "cloudy",
     j |-> "rainy", j1 |-> "rainy", j2 |-> "snowy",
     k |-> "rainy", k1 |-> "rainy", k2 |-> "snowy",
     l |-> "rainy", l1 |-> "rainy", l2 |-> "snowy",
     m |-> "rainy", n |-> "rainy", p |-> "rainy",
     r |-> "rainy", r1 |-> "rainy", r2 |-> "snowy",
     s |-> "rainy", s1 |-> "rainy", s2 |-> "snowy",
     t |-> "rainy", t1 |-> "rainy", t2 |-> "snowy",
     u |-> "rainy", u1 |-> "rainy", u2 |-> "snowy",
     w |-> "rainy", w1 |-> "rainy", w2 |-> "snowy",
     x |-> "partlycloudy", y |-> "partlycloudy"]

\* falling = 127 - 0.12 * P, steady = 144 - 0.13 * P, rising = 185 - 0.16 * P;
\* the factors are in hundredths
ZAMBRETTI_FALLING_CONSTANT == 127

ZAMBRETTI_FALLING_FACTOR == 12

ZAMBRETTI_STEADY_CONSTANT == 144

ZAMBRETTI_STEADY_FACTOR == 13

ZAMBRETTI_RISING_CONSTANT == 185

ZAMBRETTI_RISING_FACTOR == 16

\* 1.6 hPa over 3 h, in hundredths of hPa
ZAMBRETTI_TREND_THRESHOLD == 160

ZAMBRETTI_FORECASTS ==
    [falling |->
        (1 :> <<"settled_fine", "sunny">>) @@
        (2 :> <<"fine_weather", "sunny">>) @@
        (3 :> <<"fine_less_settled", "partlycloudy">>) @@
        (4 :> <<"fairly_fine_showery_later", "partlycloudy">>) @@
        (5 :> <<"showery_more_unsettled", "rainy">>) @@
        (6 :> <<"unsettled_rain_later", "rainy">>) @@
        (7 :> <<"rain_at_times_worse_later", "rainy">>) @@
        (8 :> <<"rain_very_unsettled", "rainy">>) @@
        (9 :> <<"very_unsettled_rain", "pouring">>),
     steady |->
        (10 :> <<"settled_fine", "sunny">>) @@
        (11 :> <<"fine_weather", "sunny">>) @@
        (12 :> <<"fine_possibly_showers", "partlycloudy">>) @@
        (13 :> <<"fairly_fine_showers_likely", "partlycloudy">>) @@
        (14 :> <<"showery_bright_intervals", "rainy">>) @@
        (15 :> <<"changeable_some_rain", "rainy">>) @@
        (16 :> <<"unsettled_rain_at_times", "rainy">>) @@
        (17 :> <<"rain_frequent_intervals", "rainy">>) @@
        (18 :> <<"very_unsettled_rain", "pouring">>) @@
        (19 :> <<"stormy_much_rain", "pouring">>),
     rising |->
        (20 :> <<"settled_fine", "sunny">>) @@
        (21 :> <<"fine_weather", "sunny">>) @@
        (22 :> <<"becoming_fine", "sunny">>) @@
        (23 :> <<"fairly_fine_improving", "partlycloudy">>) @@
        (24 :> <<"fairly_fine_showers_early", "partlycloudy">>) @@
        (25 :> <<"showery_early_improving", "rainy">>) @@
        (26 :> <<"changeable_mending", "partlycloudy">>) @@
        (27 :> <<"rather_unsettled_clearing", "partlycloudy">>) @@
        (28 :> <<"unsettled_probably_improving", "rainy">>) @@
        (29 :> <<"unsettled_short_fine", "rainy">>) @@
        (30 :> <<"very_unsettled_finer_at_times", "rainy">>) @@
        (31 :> <<"stormy_possibly_improving", "pouring">>) @@
        (32 :> <<"stormy_much_rain", "pouring">>)]

WIND_VELOCITY_KEYS ==
    <<"probably_increasing", "moderate_to_fresh", "fresh_to_strong", "gale",
      "storm_to_hurricane", "hurricane", "decreasing_or_moderate",
      "no_significant_change">>

WIND_DIRECTION_KEYS ==
    <<"n_or_ne", "ne_or_e", "e_or_se", "se_or_s", "s_or_sw", "sw_or_w",
      "w_or_nw", "nw_or_n">>

WIND_CARDINAL_CALM == "calm"

\* math.inf: above every number the model computes with
inf == 2147483647

\* (max, min, level), in hundredths of hPa
HPA_LEVELS ==
    << <<inf, 102946, 1>>,
       <<102946, 101930, 2>>,
       <<101930, 101253, 3>>,
       <<101253, 100576, 4>>,
       <<100576, 99900, 5>>,
       <<99900, 98880, 6>>,
       <<98880, 97528, 7>>,
       <<97528, -inf, 8>> >>

OPEN_METEO_UPDATE_INTERVAL_MINUTES == 30

-----------------------------------------------------------------------------
(* coordinator.py: the derived-signal calculators *)

\* _get_zone_directions
_get_zone_directions(lat) ==
    IF lat >= LATITUDE_NORTHERN_POLAR THEN ZONE_DIRECTIONS_NP
    ELSE IF lat >= LATITUDE_NORTHERN_TROPIC THEN ZONE_DIRECTIONS_NT
    ELSE IF lat >= 0 THEN ZONE_DIRECTIONS_NP
    ELSE IF lat > LATITUDE_SOUTHERN_TROPIC THEN ZONE_DIRECTIONS_SP
    ELSE IF lat > LATITUDE_SOUTHERN_POLAR THEN ZONE_DIRECTIONS_ST
    ELSE ZONE_DIRECTIONS_SP

\* _get_zone_name
_get_zone_name(lat) ==
    IF lat >= LATITUDE_NORTHERN_POLAR THEN "Northern Polar"
    ELSE IF lat >= LATITUDE_NORTHERN_TROPIC THEN "Northern Temperate"
    ELSE IF lat >= 0 THEN "Northern Tropical"
    ELSE IF lat > LATITUDE_SOUTHERN_TROPIC THEN "Southern Tropical"
    ELSE IF lat > LATITUDE_SOUTHERN_POLAR THEN "Southern Temperate"
    ELSE "Southern Polar"

\* self._is_southern = self._latitude < 0
_is_southern(lat) == lat < 0

InBandSwapped(hpa, band) == band[2] < hpa /\ hpa <= band[1]

\* the test of one band: min_hpa <= hpa < max_hpa, band = (max, min, level)
InBand(hpa, band) == band[2] <= hpa /\ hpa < band[1]

\* _get_hpa_level: the level of the first band that holds hpa, 8 if none does
_get_hpa_level(hpa) ==
    LET hits == {i \in 1..Len(HPA_LEVELS) : InBand(hpa, HPA_LEVELS[i])}
    IN  IF hits = {} THEN 8 ELSE HPA_LEVELS[SetMin(hits)][3]

\* _get_wind_dir: int((direction + 22.5) / 45) % 8, on whole degrees
_get_wind_dir(direction, speed) ==
    IF speed <= 1 THEN WIND_CARDINAL_CALM
    ELSE LET dirs == <<"N", "NE", "E", "SE", "S", "SW", "W", "NW">>
             idx == ((2 * direction + 45) \div 90) % 8
         IN  dirs[idx + 1]

WindTrendIgnoringHemisphere(current, historic, southern) ==
    IF historic = 0 \/ current = 0 THEN 1
    ELSE LET diff == ((current - historic + 180) % 360) - 180
         IN  IF Abs(diff) <= 45 THEN 1
             ELSE IF diff > 0 THEN 2 ELSE 3

WindTrendLongWay(current, historic, southern) ==
    IF historic = 0 \/ current = 0 THEN 1
    ELSE LET diff == (current - historic) % 360
         IN  IF diff <= 45 \/ diff >= 315 THEN 1
             ELSE IF southern THEN 3 ELSE 2

\* _get_wind_trend: 1 STEADY, 2 VEERING, 3 BACKING; southern is self._is_southern
_get_wind_trend(current, historic, southern) ==
    IF historic = 0 \/ current = 0 THEN 1
    ELSE LET diff == ((current - historic + 180) % 360) - 180
         IN  IF Abs(diff) <= 45 THEN 1
             ELSE IF southern THEN (IF diff > 0 THEN 3 ELSE 2)
             ELSE (IF diff > 0 THEN 2 ELSE 3)

\* _get_pressure_trend: breakpoints 1.4 and 0.68 hPa, in hundredths
_get_pressure_trend(change) ==
    IF change > 140 THEN 1
    ELSE IF change > 68 THEN 2
    ELSE IF change > -68 THEN 3
    ELSE IF change > -140 THEN 4
    ELSE 5

\* _get_cloud_level
_get_cloud_level(cover, raining) ==
    IF raining THEN 5
    ELSE IF cover > 80 THEN 4
    ELSE IF cover > 50 THEN 3
    ELSE IF cover > 20 THEN 2
    ELSE 1

-----------------------------------------------------------------------------
(* coordinator.py: the Sager engine *)

\* the dict literal _get_complete_forecast_map returns: (key, forecast_code,
\* wind_code), in the source's order
SagerTable ==
    {
     <<"1311", "F0", "W7">>, <<"1312", "F0", "W7">>, <<"1313", "F0", "W7">>, <<"1314", "F0", "W7">>,
     <<"1315", "F18", "W7">>, <<"1321", "F0", "W7">>, <<"1322", "F0", "W7">>, <<"1323", "F0", "W7">>,
     <<"1324", "F19", "W7">>, <<"1325", "F14", "W7">>, <<"1331", "F0", "W7">>, <<"1332", "F0", "W7">>,
     <<"1333", "F0", "W7">>, <<"1334", "F19", "W7">>, <<"1335", "F14", "W7">>, <<"1341", "F0", "W7">>,
     <<"1342", "F19", "W7">>, <<"1343", "F19", "W7">>, <<"1344", "F3", "W7">>, <<"1345", "F14", "W7">>,
     <<"1351", "F8", "W0">>, <<"1352", "F8", "W0">>, <<"1353", "F8", "W0">>, <<"1354", "F11", "W0">>,
     <<"1355", "F11", "W0">>, <<"1361", "F11", "W2">>, <<"1362", "F11", "W2">>, <<"1363", "F11", "W2">>,
     <<"1364", "F11", "W2">>, <<"1365", "F11", "W2">>, <<"1371", "F11", "W3">>, <<"1372", "F11", "W3">>,
     <<"1373", "F11", "W3">>, <<"1374", "F11", "W3">>, <<"1375", "F11", "W3">>, <<"1381", "F11", "W4">>,
     <<"1382", "F11", "W4">>, <<"1383", "F11", "W4">>, <<"1384", "F11", "W4">>, <<"1385", "F11", "W4">>,
     <<"2311", "F0", "W7">>, <<"2312", "F0", "W7">>, <<"2313", "F0", "W7">>, <<"2314", "F19", "W7">>,
     <<"2315", "F14", "W7">>, <<"2321", "F0", "W7">>, <<"2322", "F0", "W7">>, <<"2323", "F0", "W7">>,
     <<"2324", "F19", "W7">>, <<"2325", "F14", "W7">>, <<"2331", "F0", "W7">>, <<"2332", "F0", "W7">>,
     <<"2333", "F0", "W7">>, <<"2334", "F19", "W7">>, <<"2335", "F14", "W7">>, <<"2341", "F0", "W7">>,
     <<"2342", "F19", "W7">>, <<"2343", "F19", "W7">>, <<"2344", "F3", "W7">>, <<"2345", "F14", "W7">>,
     <<"2351", "F8", "W0">>, <<"2352", "F11", "W0">>, <<"2353", "F11", "W0">>, <<"2354", "F11", "W0">>,
     <<"2355", "F11", "W0">>, <<"2361", "F11", "W2">>, <<"2362", "F11", "W2">>, <<"2363", "F11", "W2">>,
     <<"2364", "F11", "W2">>, <<"2365", "F11", "W2">>, <<"2371", "F11", "W3">>, <<"2372", "F11", "W3">>,
     <<"2373", "F11", "W3">>, <<"2374", "F11", "W3">>, <<"2375", "F11", "W3">>, <<"2381", "F11", "W4">>,
     <<"2382", "F11", "W4">>, <<"2383", "F11", "W4">>, <<"2384", "F11", "W4">>, <<"2385", "F11", "W4">>,
     <<"3311", "F0", "W7">>, <<"3312", "F0", "W7">>, <<"3313", "F0", "W7">>, <<"3314", "F19", "W7">>,
     <<"3315", "F14", "W7">>, <<"3321", "F0", "W7">>, <<"3322", "F0", "W7">>, <<"3323", "F0", "W7">>,
     <<"3324", "F19", "W7">>, <<"3325", "F14", "W7">>, <<"3331", "F0", "W7">>, <<"3332", "F0", "W7">>,
     <<"3333", "F0", "W7">>, <<"3334", "F19", "W7">>, <<"3335", "F14", "W7">>, <<"3341", "F0", "W7">>,
     <<"3342", "F0", "W7">>, <<"3343", "F19", "W7">>, <<"3344", "F3", "W7">>, <<"3345", "F14", "W7">>,
     <<"3351", "F8", "W0">>, <<"3352", "F8", "W0">>, <<"3353", "F8", "W0">>, <<"3354", "F11", "W0">>,
     <<"3355", "F11", "W0">>, <<"3361", "F11", "W2">>, <<"3362", "F11", "W2">>, <<"3363", "F11", "W2">>,
     <<"3364", "F11", "W2">>, <<"3365", "F11", "W2">>, <<"3371", "F11", "W3">>, <<"3372", "F11", "W3">>,
     <<"3373", "F11", "W3">>, <<"3374", "F11", "W3">>, <<"3375", "F11", "W3">>, <<"3381", "F11", "W4">>,
     <<"3382", "F11", "W4">>, <<"3383", "F11", "W4">>, <<"3384", "F11", "W4">>, <<"3385", "F11", "W4">>,
     <<"1211", "F0", "W7">>, <<"1212", "F0", "W7">>, <<"1213", "F0", "W7">>, <<"1214", "F0", "W7">>,
     <<"1215", "F16", "W7">>, <<"1221", "F0", "W7">>, <<"1222", "F0", "W7">>, <<"1223", "F0", "W7">>,
     <<"1224", "F0", "W7">>, <<"1225", "F17", "W7">>, <<"1231", "F2", "W7">>, <<"1232", "F2", "W7">>,
     <<"1233", "F2", "W7">>, <<"1234", "F2", "W7">>, <<"1235", "F17", "W7">>, <<"1241", "F2", "W7">>,
     <<"1242", "F0", "W7">>, <<"1243", "F0", "W7">>, <<"1244", "F0", "W7">>, <<"1245", "F18", "W7">>,
     <<"1251", "F9", "W1">>, <<"1252", "F9", "W1">>, <<"1253", "F9", "W1">>, <<"1254", "F12", "W1">>,
     <<"1255", "F12", "W1">>, <<"1261", "F12", "W2">>, <<"1262", "F12", "W2">>, <<"1263", "F12", "W2">>,
     <<"1264", "F12", "W2">>, <<"1265", "F12", "W2">>, <<"1271", "F12", "W3">>, <<"1272", "F12", "W3">>,
     <<"1273", "F12", "W3">>, <<"1274", "F12", "W3">>, <<"1275", "F12", "W3">>, <<"1281", "F12", "W4">>,
     <<"1282", "F12", "W4">>, <<"1283", "F12", "W4">>, <<"1284", "F12", "W4">>, <<"1285", "F12", "W4">>,
     <<"1411", "F0", "W7">>, <<"1412", "F0", "W7">>, <<"1413", "F0", "W7">>, <<"1414", "F3", "W7">>,
     <<"1415", "F14", "W7">>, <<"1421", "F3", "W7">>, <<"1422", "F3", "W7">>, <<"1423", "F3", "W7">>,
     <<"1424", "F3", "W7">>, <<"1425", "F14", "W7">>, <<"1431", "F0", "W7">>, <<"1432", "F3", "W7">>,
     <<"1433", "F3", "W7">>, <<"1434", "F3", "W7">>, <<"1435", "F14", "W7">>, <<"1441", "F0", "W7">>,
     <<"1442", "F19", "W7">>, <<"1443", "F19", "W7">>, <<"1444", "F3", "W7">>, <<"1445", "F14", "W7">>,
     <<"1451", "F9", "W1">>, <<"1452", "F12", "W1">>, <<"1453", "F12", "W1">>, <<"1454", "F12", "W1">>,
     <<"1455", "F12", "W1">>, <<"1461", "F12", "W2">>, <<"1462", "F12", "W2">>, <<"1463", "F12", "W2">>,
     <<"1464", "F12", "W2">>, <<"1465", "F12", "W2">>, <<"1471", "F12", "W3">>, <<"1472", "F12", "W3">>,
     <<"1473", "F12", "W3">>, <<"1474", "F12", "W3">>, <<"1475", "F12", "W3">>, <<"1481", "F12", "W4">>,
     <<"1482", "F12", "W4">>, <<"1483", "F12", "W4">>, <<"1484", "F12", "W4">>, <<"1485", "F12", "W4">>,
     <<"1111", "F2", "W7">>, <<"1112", "F2", "W7">>, <<"1113", "F2", "W7">>, <<"1114", "F2", "W7">>,
     <<"1115", "F18", "W7">>, <<"1121", "F3", "W7">>, <<"1122", "F1", "W7">>, <<"1123", "F1", "W7">>,
     <<"1124", "F1", "W7">>, <<"1125", "F19", "W7">>, <<"1131", "F2", "W7">>, <<"1132", "F0", "W7">>,
     <<"1133", "F0", "W7">>, <<"1134", "F0", "W7">>, <<"1135", "F18", "W7">>, <<"1141", "F3", "W7">>,
     <<"1142", "F1", "W7">>, <<"1143", "F1", "W7">>, <<"1144", "F1", "W7">>, <<"1145", "F19", "W7">>,
     <<"1151", "F9", "W1">>, <<"1152", "F12", "W1">>, <<"1153", "F12", "W1">>, <<"1154", "F12", "W1">>,
     <<"1155", "F12", "W1">>, <<"1161", "F12", "W2">>, <<"1162", "F12", "W2">>, <<"1163", "F12", "W2">>,
     <<"1164", "F12", "W2">>, <<"1165", "F12", "W2">>, <<"1171", "F12", "W3">>, <<"1172", "F12", "W3">>,
     <<"1173", "F12", "W3">>, <<"1174", "F12", "W3">>, <<"1175", "F12", "W3">>, <<"1181", "F12", "W4">>,
     <<"1182", "F12", "W4">>, <<"1183", "F12", "W4">>, <<"1184", "F12", "W4">>, <<"1185", "F12", "W4">>,
     <<"1511", "F6", "W0">>, <<"1512", "F6", "W0">>, <<"1513", "F6", "W0">>, <<"1514", "F6", "W0">>,
     <<"1515", "F8", "W0">>, <<"1521", "F7", "W1">>, <<"1522", "F7", "W1">>, <<"1523", "F7", "W1">>,
     <<"1524", "F7", "W1">>, <<"1525", "F9", "W1">>, <<"1531", "F7", "W1">>, <<"1532", "F7", "W1">>,
     <<"1533", "F7", "W1">>, <<"1534", "F7", "W1">>, <<"1535", "F9", "W1">>, <<"1541", "F7", "W1">>,
     <<"1542", "F7", "W1">>, <<"1543", "F7", "W1">>, <<"1544", "F9", "W1">>, <<"1545", "F9", "W1">>,
     <<"1551", "F9", "W1">>, <<"1552", "F12", "W1">>, <<"1553", "F12", "W1">>, <<"1554", "F12", "W1">>,
     <<"1555", "F12", "W1">>, <<"1561", "F12", "W2">>, <<"1562", "F12", "W2">>, <<"1563", "F12", "W2">>,
     <<"1564", "F12", "W2">>, <<"1565", "F12", "W2">>, <<"1571", "F12", "W3">>, <<"1572", "F12", "W3">>,
     <<"1573", "F12", "W3">>, <<"1574", "F12", "W3">>, <<"1575", "F12", "W3">>, <<"1581", "F12", "W4">>,
     <<"1582", "F12", "W4">>, <<"1583", "F12", "W4">>, <<"1584", "F12", "W4">>, <<"1585", "F12", "W4">>,
     <<"2211", "F0", "W7">>, <<"2212", "F0", "W7">>, <<"2213", "F0", "W7">>, <<"2214", "F0", "W7">>,
     <<"2215", "F16", "W7">>, <<"2221", "F0", "W7">>, <<"2222", "F0", "W7">>, <<"2223", "F0", "W7">>,
     <<"2224", "F0", "W7">>, <<"2225", "F17", "W7">>, <<"2231", "F2", "W7">>, <<"2232", "F2", "W7">>,
     <<"2233", "F2", "W7">>, <<"2234", "F2", "W7">>, <<"2235", "F17", "W7">>, <<"2241", "F2", "W7">>,
     <<"2242", "F0", "W7">>, <<"2243", "F0", "W7">>, <<"2244", "F0", "W7">>, <<"2245", "F18", "W7">>,
     <<"2251", "F9", "W1">>, <<"2252", "F12", "W1">>, <<"2253", "F12", "W1">>, <<"2254", "F12", "W1">>,
     <<"2255", "F12", "W1">>, <<"2261", "F12", "W2">>, <<"2262", "F12", "W2">>, <<"2263", "F12", "W2">>,
     <<"2264", "F12", "W2">>, <<"2265", "F12", "W2">>, <<"2271", "F12", "W3">>, <<"2272", "F12", "W3">>,
     <<"2273", "F12", "W3">>, <<"2274", "F12", "W3">>, <<"2275", "F12", "W3">>, <<"2281", "F12", "W4">>,
     <<"2282", "F12", "W4">>, <<"2283", "F12", "W4">>, <<"2284", "F12", "W4">>, <<"2285", "F12", "W4">>,
     <<"2411", "F0", "W7">>, <<"2412", "F3", "W7">>, <<"2413", "F3", "W7">>, <<"2414", "F3", "W7">>,
     <<"2415", "F14", "W7">>, <<"2421", "F0", "W7">>, <<"2422", "F3", "W7">>, <<"2423", "F6", "W7">>,
     <<"2424", "F6", "W7">>, <<"2425", "F8", "W7">>, <<"2431", "F0", "W7">>, <<"2432", "F3", "W7">>,
     <<"2433", "F6", "W7">>, <<"2434", "F6", "W7">>, <<"2435", "F8", "W7">>, <<"2441", "F0", "W7">>,
     <<"2442", "F3", "W7">>, <<"2443", "F6", "W7">>, <<"2444", "F6", "W7">>, <<"2445", "F8", "W7">>,
     <<"2451", "F9", "W1">>, <<"2452", "F12", "W1">>, <<"2453", "F12", "W1">>, <<"2454", "F12", "W1">>,
     <<"2455", "F12", "W1">>, <<"2461", "F12", "W2">>, <<"2462", "F12", "W2">>, <<"2463", "F12", "W2">>,
     <<"2464", "F12", "W2">>, <<"2465", "F12", "W2">>, <<"2471", "F12", "W3">>, <<"2472", "F12", "W3">>,
     <<"2473", "F12", "W3">>, <<"2474", "F12", "W3">>, <<"2475", "F12", "W3">>, <<"2481", "F12", "W4">>,
     <<"2482", "F12", "W4">>, <<"2483", "F12", "W4">>, <<"2484", "F12", "W4">>, <<"2485", "F12", "W4">>,
     <<"2111", "F2", "W7">>, <<"2112", "F0", "W7">>, <<"2113", "F0", "W7">>, <<"2114", "F0", "W7">>,
     <<"2115", "F18", "W7">>, <<"2121", "F2", "W7">>, <<"2122", "F0", "W7">>, <<"2123", "F0", "W7">>,
     <<"2124", "F0", "W7">>, <<"2125", "F18", "W7">>, <<"2131", "F2", "W7">>, <<"2132", "F0", "W7">>,
     <<"2133", "F0", "W7">>, <<"2134", "F0", "W7">>, <<"2135", "F18", "W7">>, <<"2141", "F2", "W7">>,
     <<"2142", "F0", "W7">>, <<"2143", "F0", "W7">>, <<"2144", "F0", "W7">>, <<"2145", "F18", "W7">>,
     <<"2151", "F9", "W1">>, <<"2152", "F12", "W1">>, <<"2153", "F12", "W1">>, <<"2154", "F12", "W1">>,
     <<"2155", "F12", "W1">>, <<"2161", "F12", "W2">>, <<"2162", "F12", "W2">>, <<"2163", "F12", "W2">>,
     <<"2164", "F12", "W2">>, <<"2165", "F12", "W2">>, <<"2171", "F12", "W3">>, <<"2172", "F12", "W3">>,
     <<"2173", "F12", "W3">>, <<"2174", "F12", "W3">>, <<"2175", "F12", "W3">>, <<"2181", "F12", "W4">>,
     <<"2182", "F12", "W4">>, <<"2183", "F12", "W4">>, <<"2184", "F12", "W4">>, <<"2185", "F12", "W4">>,
     <<"3211", "F2", "W7">>, <<"3212", "F2", "W7">>, <<"3213", "F2", "W7">>, <<"3214", "F2", "W7">>,
     <<"3215", "F17", "W7">>, <<"3221", "F2", "W7">>, <<"3222", "F2", "W7">>, <<"3223", "F2", "W7">>,
     <<"3224", "F2", "W7">>, <<"3225", "F17", "W7">>, <<"3231", "F2", "W7">>, <<"3232", "F2", "W7">>,
     <<"3233", "F2", "W7">>, <<"3234", "F2", "W7">>, <<"3235", "F17", "W7">>, <<"3241", "F2", "W7">>,
     <<"3242", "F2", "W7">>, <<"3243", "F2", "W7">>, <<"3244", "F2", "W7">>, <<"3245", "F17", "W7">>,
     <<"3251", "F9", "W1">>, <<"3252", "F12", "W1">>, <<"3253", "F12", "W1">>, <<"3254", "F12", "W1">>,
     <<"3255", "F12", "W1">>, <<"3261", "F12", "W2">>, <<"3262", "F12", "W2">>, <<"3263", "F12", "W2">>,
     <<"3264", "F12", "W2">>, <<"3265", "F12", "W2">>, <<"3271", "F12", "W3">>, <<"3272", "F12", "W3">>,
     <<"3273", "F12", "W3">>, <<"3274", "F12", "W3">>, <<"3275", "F12", "W3">>, <<"3281", "F12", "W4">>,
     <<"3282", "F12", "W4">>, <<"3283", "F12", "W4">>, <<"3284", "F12", "W4">>, <<"3285", "F12", "W4">>,
     <<"3411", "F0", "W7">>, <<"3412", "F3", "W7">>, <<"3413", "F3", "W7">>, <<"3414", "F3", "W7">>,
     <<"3415", "F14", "W7">>, <<"3421", "F3", "W7">>, <<"3422", "F3", "W7">>, <<"3423", "F3", "W7">>,
     <<"3424", "F3", "W7">>, <<"3425", "F14", "W7">>, <<"3431", "F0", "W7">>, <<"3432", "F3", "W7">>,
     <<"3433", "F3", "W7">>, <<"3434", "F3", "W7">>, <<"3435", "F14", "W7">>, <<"3441", "F0", "W7">>,
     <<"3442", "F3", "W7">>, <<"3443", "F6", "W7">>, <<"3444", "F6", "W7">>, <<"3445", "F8", "W7">>,
     <<"3451", "F9", "W1">>, <<"3452", "F12", "W1">>, <<"3453", "F12", "W1">>, <<"3454", "F12", "W1">>,
     <<"3455", "F12", "W1">>, <<"3461", "F12", "W2">>, <<"3462", "F12", "W2">>, <<"3463", "F12", "W2">>,
     <<"3464", "F12", "W2">>, <<"3465", "F12", "W2">>, <<"3471", "F12", "W3">>, <<"3472", "F12", "W3">>,
     <<"3473", "F12", "W3">>, <<"3474", "F12", "W3">>, <<"3475", "F12", "W3">>, <<"3481", "F12", "W4">>,
     <<"3482", "F12", "W4">>, <<"3483", "F12", "W4">>, <<"3484", "F12", "W4">>, <<"3485", "F12", "W4">>,
     <<"3111", "F2", "W7">>, <<"3112", "F2", "W7">>, <<"3113", "F2", "W7">>, <<"3114", "F2", "W7">>,
     <<"3115", "F18", "W7">>, <<"3121", "F2", "W7">>, <<"3122", "F0", "W7">>, <<"3123", "F0", "W7">>,
     <<"3124", "F0", "W7">>, <<"3125", "F18", "W7">>, <<"3131", "F2", "W7">>, <<"3132", "F0", "W7">>,
     <<"3133", "F0", "W7">>, <<"3134", "F0", "W7">>, <<"3135", "F18", "W7">>, <<"3141", "F2", "W7">>,
     <<"3142", "F0", "W7">>, <<"3143", "F0", "W7">>, <<"3144", "F0", "W7">>, <<"3145", "F18", "W7">>,
     <<"3151", "F9", "W1">>, <<"3152", "F12", "W1">>, <<"3153", "F12", "W1">>, <<"3154", "F12", "W1">>,
     <<"3155", "F12", "W1">>, <<"3161", "F12", "W2">>, <<"3162", "F12", "W2">>, <<"3163", "F12", "W2">>,
     <<"3164", "F12", "W2">>, <<"3165", "F12", "W2">>, <<"3171", "F12", "W3">>, <<"3172", "F12", "W3">>,
     <<"3173", "F12", "W3">>, <<"3174", "F12", "W3">>, <<"3175", "F12", "W3">>, <<"3181", "F12", "W4">>,
     <<"3182", "F12", "W4">>, <<"3183", "F12", "W4">>, <<"3184", "F12", "W4">>, <<"3185", "F12", "W4">>,
     <<"3511", "F6", "W0">>, <<"3512", "F6", "W0">>, <<"3513", "F6", "W0">>, <<"3514", "F6", "W0">>,
     <<"3515", "F8", "W0">>, <<"3521", "F7", "W1">>, <<"3522", "F7", "W1">>, <<"3523", "F7", "W1">>,
     <<"3524", "F7", "W1">>, <<"3525", "F9", "W1">>, <<"3531", "F7", "W1">>, <<"3532", "F7", "W1">>,
     <<"3533", "F7", "W1">>, <<"3534", "F7", "W1">>, <<"3535", "F9", "W1">>, <<"3541", "F7", "W1">>,
     <<"3542", "F7", "W1">>, <<"3543", "F7", "W1">>, <<"3544", "F9", "W1">>, <<"3545", "F9", "W1">>,
     <<"3551", "F9", "W1">>, <<"3552", "F12", "W1">>, <<"3553", "F12", "W1">>, <<"3554", "F12", "W1">>,
     <<"3555", "F12", "W1">>, <<"3561", "F12", "W2">>, <<"3562", "F12", "W2">>, <<"3563", "F12", "W2">>,
     <<"3564", "F12", "W2">>, <<"3565", "F12", "W2">>, <<"3571", "F12", "W3">>, <<"3572", "F12", "W3">>,
     <<"3573", "F12", "W3">>, <<"3574", "F12", "W3">>, <<"3575", "F12", "W3">>, <<"3581", "F12", "W4">>,
     <<"3582", "F12", "W4">>, <<"3583", "F12", "W4">>, <<"3584", "F12", "W4">>, <<"3585", "F12", "W4">>,
     <<"1611", "F11", "W2">>, <<"1612", "F11", "W2">>, <<"1613", "F11", "W2">>, <<"1614", "F11", "W2">>,
     <<"1615", "F11", "W2">>, <<"1621", "F11", "W2">>, <<"1622", "F11", "W2">>, <<"1623", "F11", "W2">>,
     <<"1624", "F11", "W2">>, <<"1625", "F11", "W2">>, <<"1631", "F11", "W2">>, <<"1632", "F11", "W2">>,
     <<"1633", "F11", "W2">>, <<"1634", "F11", "W2">>, <<"1635", "F11", "W2">>, <<"1641", "F11", "W2">>,
     <<"1642", "F11", "W2">>, <<"1643", "F11", "W2">>, <<"1644", "F11", "W2">>, <<"1645", "F11", "W2">>,
     <<"1651", "F12", "W2">>, <<"1652", "F12", "W2">>, <<"1653", "F12", "W2">>, <<"1654", "F12", "W2">>,
     <<"1655", "F12", "W2">>, <<"1711", "F11", "W3">>, <<"1712", "F11", "W3">>, <<"1713", "F11", "W3">>,
     <<"1714", "F11", "W3">>, <<"1715", "F11", "W3">>, <<"1721", "F11", "W3">>, <<"1722", "F11", "W3">>,
     <<"1723", "F11", "W3">>, <<"1724", "F11", "W3">>, <<"1725", "F11", "W3">>, <<"1731", "F11", "W3">>,
     <<"1732", "F11", "W3">>, <<"1733", "F11", "W3">>, <<"1734", "F11", "W3">>, <<"1735", "F11", "W3">>,
     <<"1741", "F11", "W3">>, <<"1742", "F11", "W3">>, <<"1743", "F11", "W3">>, <<"1744", "F11", "W3">>,
     <<"1745", "F11", "W3">>, <<"1751", "F12", "W3">>, <<"1752", "F12", "W3">>, <<"1753", "F12", "W3">>,
     <<"1754", "F12", "W3">>, <<"1755", "F12", "W3">>, <<"1811", "F11", "W4">>, <<"1812", "F11", "W4">>,
     <<"1813", "F11", "W4">>, <<"1814", "F11", "W4">>, <<"1815", "F11", "W4">>, <<"1821", "F11", "W4">>,
     <<"1822", "F11", "W4">>, <<"1823", "F11", "W4">>, <<"1824", "F11", "W4">>, <<"1825", "F11", "W4">>,
     <<"1831", "F11", "W4">>, <<"1832", "F11", "W4">>, <<"1833", "F11", "W4">>, <<"1834", "F11", "W4">>,
     <<"1835", "F11", "W4">>, <<"1841", "F11", "W4">>, <<"1842", "F11", "W4">>, <<"1843", "F11", "W4">>,
     <<"1844", "F11", "W4">>, <<"1845", "F11", "W4">>, <<"1851", "F12", "W4">>, <<"1852", "F12", "W4">>,
     <<"1853", "F12", "W4">>, <<"1854", "F12", "W4">>, <<"1855", "F12", "W4">>, <<"2611", "F11", "W2">>,
     <<"2612", "F11", "W2">>, <<"2613", "F11", "W2">>, <<"2614", "F11", "W2">>, <<"2615", "F11", "W2">>,
     <<"2621", "F11", "W2">>, <<"2622", "F11", "W2">>, <<"2623", "F11", "W2">>, <<"2624", "F11", "W2">>,
     <<"2625", "F11", "W2">>, <<"2631", "F11", "W2">>, <<"2632", "F11", "W2">>, <<"2633", "F11", "W2">>,
     <<"2634", "F11", "W2">>, <<"2635", "F11", "W2">>, <<"2641", "F11", "W2">>, <<"2642", "F11", "W2">>,
     <<"2643", "F11", "W2">>, <<"2644", "F11", "W2">>, <<"2645", "F11", "W2">>, <<"2651", "F12", "W2">>,
     <<"2652", "F12", "W2">>, <<"2653", "F12", "W2">>, <<"2654", "F12", "W2">>, <<"2655", "F12", "W2">>,
     <<"2711", "F11", "W3">>, <<"2712", "F11", "W3">>, <<"2713", "F11", "W3">>, <<"2714", "F11", "W3">>,
     <<"2715", "F11", "W3">>, <<"2721", "F11", "W3">>, <<"2722", "F11", "W3">>, <<"2723", "F11", "W3">>,
     <<"2724", "F11", "W3">>, <<"2725", "F11", "W3">>, <<"2731", "F11", "W3">>, <<"2732", "F11", "W3">>,
     <<"2733", "F11", "W3">>, <<"2734", "F11", "W3">>, <<"2735", "F11", "W3">>, <<"2741", "F11", "W3">>,
     <<"2742", "F11", "W3">>, <<"2743", "F11", "W3">>, <<"2744", "F11", "W3">>, <<"2745", "F11", "W3">>,
     <<"2751", "F12", "W3">>, <<"2752", "F12", "W3">>, <<"2753", "F12", "W3">>, <<"2754", "F12", "W3">>,
     <<"2755", "F12", "W3">>, <<"2811", "F11", "W4">>, <<"2812", "F11", "W4">>, <<"2813", "F11", "W4">>,
     <<"2814", "F11", "W4">>, <<"2815", "F11", "W4">>, <<"2821", "F11", "W4">>, <<"2822", "F11", "W4">>,
     <<"2823", "F11", "W4">>, <<"2824", "F11", "W4">>, <<"2825", "F11", "W4">>, <<"2831", "F11", "W4">>,
     <<"2832", "F11", "W4">>, <<"2833", "F11", "W4">>, <<"2834", "F11", "W4">>, <<"2835", "F11", "W4">>,
     <<"2841", "F11", "W4">>, <<"2842", "F11", "W4">>, <<"2843", "F11", "W4">>, <<"2844", "F11", "W4">>,
     <<"2845", "F11", "W4">>, <<"2851", "F12", "W4">>, <<"2852", "F12", "W4">>, <<"2853", "F12", "W4">>,
     <<"2854", "F12", "W4">>, <<"2855", "F12", "W4">>, <<"3611", "F11", "W2">>, <<"3612", "F11", "W2">>,
     <<"3613", "F11", "W2">>, <<"3614", "F11", "W2">>, <<"3615", "F11", "W2">>, <<"3621", "F11", "W2">>,
     <<"3622", "F11", "W2">>, <<"3623", "F11", "W2">>, <<"3624", "F11", "W2">>, <<"3625", "F11", "W2">>,
     <<"3631", "F11", "W2">>, <<"3632", "F11", "W2">>, <<"3633", "F11", "W2">>, <<"3634", "F11", "W2">>,
     <<"3635", "F11", "W2">>, <<"3641", "F11", "W2">>, <<"3642", "F11", "W2">>, <<"3643", "F11", "W2">>,
     <<"3644", "F11", "W2">>, <<"3645", "F11", "W2">>, <<"3651", "F12", "W2">>, <<"3652", "F12", "W2">>,
     <<"3653", "F12", "W2">>, <<"3654", "F12", "W2">>, <<"3655", "F12", "W2">>, <<"3711", "F11", "W3">>,
     <<"3712", "F11", "W3">>, <<"3713", "F11", "W3">>, <<"3714", "F11", "W3">>, <<"3715", "F11", "W3">>,
     <<"3721", "F11", "W3">>, <<"3722", "F11", "W3">>, <<"3723", "F11", "W3">>, <<"3724", "F11", "W3">>,
     <<"3725", "F11", "W3">>, <<"3731", "F11", "W3">>, <<"3732", "F11", "W3">>, <<"3733", "F11", "W3">>,
     <<"3734", "F11", "W3">>, <<"3735", "F11", "W3">>, <<"3741", "F11", "W3">>, <<"3742", "F11", "W3">>,
     <<"3743", "F11", "W3">>, <<"3744", "F11", "W3">>, <<"3745", "F11", "W3">>, <<"3751", "F12", "W3">>,
     <<"3752", "F12", "W3">>, <<"3753", "F12", "W3">>, <<"3754", "F12", "W3">>, <<"3755", "F12", "W3">>,
     <<"3811", "F11", "W4">>, <<"3812", "F11", "W4">>, <<"3813", "F11", "W4">>, <<"3814", "F11", "W4">>,
     <<"3815", "F11", "W4">>, <<"3821", "F11", "W4">>, <<"3822", "F11", "W4">>, <<"3823", "F11", "W4">>,
     <<"3824", "F11", "W4">>, <<"3825", "F11", "W4">>, <<"3831", "F11", "W4">>, <<"3832", "F11", "W4">>,
     <<"3833", "F11", "W4">>, <<"3834", "F11", "W4">>, <<"3835", "F11", "W4">>, <<"3841", "F11", "W4">>,
     <<"3842", "F11", "W4">>, <<"3843", "F11", "W4">>, <<"3844", "F11", "W4">>, <<"3845", "F11", "W4">>,
     <<"3851", "F12", "W4">>, <<"3852", "F12", "W4">>, <<"3853", "F12", "W4">>, <<"3854", "F12", "W4">>,
     <<"3855", "F12", "W4">>
    }

\* _get_complete_forecast_map: lookup key -> (forecast_code, wind_code), the
\* dict of SagerTable (merging with the empty function makes it explicit)
_get_complete_forecast_map ==
    [key \in {e[1] : e \in SagerTable} |->
        LET e == CHOOSE e \in SagerTable : e[1] = key IN <<e[2], e[3]>>] @@ <<>>

\* the codes int(code[1:]) can parse: one leading character, then a number
MaxCodeNumber == 99

CodeNumbers ==
    UNION {{<<p \o ToString(n), n>> : n \in 0..MaxCodeNumber} : p \in {"F", "W"}}

\* int(code[1:]); None stands for the ValueError of an unparseable code
ParseCode(code) ==
    IF \E e \in CodeNumbers : e[1] = code
    THEN Some((CHOOSE e \in CodeNumbers : e[1] = code)[2])
    ELSE None

\* wind_index_map.get(z_wind, 7): the 0-based place of the cardinal in the
\* zone's array, 7 for calm
WindIndex(zone_directions, z_wind) ==
    IF z_wind = WIND_CARDINAL_CALM THEN 7
    ELSE IF \E i \in 1..Len(zone_directions) : zone_directions[i] = z_wind
    THEN (CHOOSE i \in 1..Len(zone_directions) : zone_directions[i] = z_wind) - 1
    ELSE 7

\* f"{z_rumbo}{z_hpa}{z_trend}{z_nubes}"
LookupKey(z_rumbo, z_hpa, z_trend, z_nubes) ==
    ToString(z_rumbo) \o ToString(z_hpa) \o ToString(z_trend) \o ToString(z_nubes)

\* trend_names[z_rumbo - 1]
WindTrendName(z_rumbo) ==
    <<WIND_TREND_STEADY, WIND_TREND_VEERING, WIND_TREND_BACKING>>[z_rumbo]

\* pressure_names[z_trend - 1]
PressureTrendName(z_trend) ==
    <<PRESSURE_TREND_RISING_RAPIDLY, PRESSURE_TREND_RISING_SLOWLY,
      PRESSURE_TREND_NORMAL, PRESSURE_TREND_DECREASING_SLOWLY,
      PRESSURE_TREND_DECREASING_RAPIDLY>>[z_trend]

\* cloud_names[z_nubes - 1]
CloudLevelName(z_nubes) ==
    <<CLOUD_LEVEL_CLEAR, CLOUD_LEVEL_PARTLY_CLOUDY, CLOUD_LEVEL_MOSTLY_CLOUDY,
      CLOUD_LEVEL_OVERCAST, CLOUD_LEVEL_RAINING>>[z_nubes]

SagerLookupFairDefault(lookup_key) ==
    IF lookup_key \in DOMAIN _get_complete_forecast_map
    THEN [codes |-> _get_complete_forecast_map[lookup_key], confidence |-> 95]
    ELSE [codes |-> <<"F0", "W7">>, confidence |-> 95]

\* the table lookup with its default entry and the two confidences
SagerLookup(lookup_key) ==
    IF lookup_key \in DOMAIN _get_complete_forecast_map
    THEN [codes |-> _get_complete_forecast_map[lookup_key], confidence |-> 95]
    ELSE [codes |-> <<"F3", "W7">>, confidence |-> 60]

\* _sager_algorithm(data) of a coordinator at latitude lat
_sager_algorithm(d, lat) ==
    LET z_hpa == _get_hpa_level(d.pressure)
        z_wind == _get_wind_dir(d.wind_direction, d.wind_speed)
        z_rumbo == _get_wind_trend(d.wind_direction, d.wind_historic,
                                   _is_southern(lat))
        z_trend == _get_pressure_trend(d.pressure_change)
        z_nubes == _get_cloud_level(d.cloud_cover, d.raining)
        wind_index == WindIndex(_get_zone_directions(lat), z_wind)
        lookup_key == LookupKey(z_rumbo, z_hpa, z_trend, z_nubes)
        found == SagerLookup(lookup_key)
        f_code == found.codes[1]
        w_code == found.codes[2]
        f_parsed == ParseCode(f_code)
        w_parsed == IF w_code # "FF" THEN ParseCode(w_code) ELSE Some(7)
        parse_ok == f_parsed.some /\ w_parsed.some
        forecast_idx == IF parse_ok THEN f_parsed.v ELSE 3
        wind_idx == IF parse_ok THEN w_parsed.v ELSE 7
        base_code == IF forecast_idx < Len(FORECAST_CODES)
                     THEN FORECAST_CODES[forecast_idx + 1]
                     ELSE "d"
        forecast_code ==
            IF base_code \in SHOWER_FORECAST_CODES /\ d.temperature.some
            THEN base_code \o (IF d.temperature.v > TEMP_THRESHOLD_FLURRIES
                               THEN "1" ELSE "2")
            ELSE base_code
    IN  [forecast_code |-> forecast_code,
         wind_velocity_key |->
             IF wind_idx < Len(WIND_VELOCITY_KEYS)
             THEN WIND_VELOCITY_KEYS[wind_idx + 1]
             ELSE "no_significant_change",
         wind_direction_key |->
             IF wind_index < Len(WIND_DIRECTION_KEYS)
             THEN WIND_DIRECTION_KEYS[wind_index + 1]
             ELSE "nw_or_n",
         hpa_level |-> z_hpa,
         wind_dir |-> z_wind,
         wind_trend |-> WindTrendName(z_rumbo),
         pressure_trend |-> PressureTrendName(z_trend),
         cloud_level |-> CloudLevelName(z_nubes),
         confidence |-> found.confidence,
         latitude_zone |-> _get_zone_name(lat)]

-----------------------------------------------------------------------------
(* coordinator.py: the Zambretti engine *)

ZambrettiTrendUnscaled(pressure_change) ==
    IF pressure_change < -ZAMBRETTI_TREND_THRESHOLD THEN "falling"
    ELSE IF pressure_change > ZAMBRETTI_TREND_THRESHOLD THEN "rising"
    ELSE "steady"

\* change_3h = pressure_change / 2.0 against the threshold: both sides are
\* doubled, so that the halved change stays a whole number of hundredths
ZambrettiTrend(pressure_change) ==
    IF pressure_change < -(2 * ZAMBRETTI_TREND_THRESHOLD) THEN "falling"
    ELSE IF pressure_change > 2 * ZAMBRETTI_TREND_THRESHOLD THEN "rising"
    ELSE "steady"

\* math.floor(constant - factor * pressure), factor in hundredths and
\* pressure in hundredths of hPa
ZambrettiFloor(constant, factor, pressure) ==
    (constant * Centi * Centi - factor * pressure) \div (Centi * Centi)

\* the wind adjustment without its cap at the last index of the table
ZambrettiForecastUncapped(d) ==
    LET trend == ZambrettiTrend(d.pressure_change)
        raw_idx ==
            IF trend = "falling"
            THEN MaxOf(1, MinOf(9, ZambrettiFloor(ZAMBRETTI_FALLING_CONSTANT,
                                    ZAMBRETTI_FALLING_FACTOR, d.pressure)))
            ELSE IF trend = "rising"
            THEN MaxOf(20, MinOf(32, ZambrettiFloor(ZAMBRETTI_RISING_CONSTANT,
                                    ZAMBRETTI_RISING_FACTOR, d.pressure)))
            ELSE MaxOf(10, MinOf(19, ZambrettiFloor(ZAMBRETTI_STEADY_CONSTANT,
                                    ZAMBRETTI_STEADY_FACTOR, d.pressure)))
        wind_dir == d.wind_direction
        top == SetMax(DOMAIN ZAMBRETTI_FORECASTS[trend])
        forecast_idx ==
            IF 135 <= wind_dir /\ wind_dir <= 225
            THEN raw_idx + 2
            ELSE IF (45 <= wind_dir /\ wind_dir < 135)
                    \/ (225 < wind_dir /\ wind_dir <= 315)
            THEN raw_idx + 1
            ELSE raw_idx
        lookup == ZAMBRETTI_FORECASTS[trend]
        hit == forecast_idx \in DOMAIN lookup
    IN  [zambretti_key |-> IF hit THEN lookup[forecast_idx][1] ELSE "unknown",
         condition |-> IF hit THEN lookup[forecast_idx][2] ELSE "partlycloudy",
         trend |-> trend,
         index |-> forecast_idx]

\* _zambretti_forecast(sensor_data)
_zambretti_forecast(d) ==
    LET trend == ZambrettiTrend(d.pressure_change)
        raw_idx ==
            IF trend = "falling"
            THEN MaxOf(1, MinOf(9, ZambrettiFloor(ZAMBRETTI_FALLING_CONSTANT,
                                    ZAMBRETTI_FALLING_FACTOR, d.pressure)))
            ELSE IF trend = "rising"
            THEN MaxOf(20, MinOf(32, ZambrettiFloor(ZAMBRETTI_RISING_CONSTANT,
                                    ZAMBRETTI_RISING_FACTOR, d.pressure)))
            ELSE MaxOf(10, MinOf(19, ZambrettiFloor(ZAMBRETTI_STEADY_CONSTANT,
                                    ZAMBRETTI_STEADY_FACTOR, d.pressure)))
        wind_dir == d.wind_direction
        top == SetMax(DOMAIN ZAMBRETTI_FORECASTS[trend])
        forecast_idx ==
            IF 135 <= wind_dir /\ wind_dir <= 225
            THEN MinOf(raw_idx + 2, top)
            ELSE IF (45 <= wind_dir /\ wind_dir < 135)
                    \/ (225 < wind_dir /\ wind_dir <= 315)
            THEN MinOf(raw_idx + 1, top)
            ELSE raw_idx
        lookup == ZAMBRETTI_FORECASTS[trend]
        hit == forecast_idx \in DOMAIN lookup
    IN  [zambretti_key |-> IF hit THEN lookup[forecast_idx][1] ELSE "unknown",
         condition |-> IF hit THEN lookup[forecast_idx][2] ELSE "partlycloudy",
         trend |-> trend,
         index |-> forecast_idx]

-----------------------------------------------------------------------------
(* coordinator.py: the cross-validator *)

severity ==
    [sunny |-> 0, partlycloudy |-> 1, cloudy |-> 2, rainy |-> 3, snowy |-> 3,
     pouring |-> 4] @@ ("clear-night" :> 0)

\* dict.get(key, default)
DictGet(dict, key, default) ==
    IF key \in DOMAIN dict THEN dict[key] ELSE default

\* dict[key] = value
DictSet(dict, key, value) ==
    [k \in DOMAIN dict \cup {key} |-> IF k = key THEN value ELSE dict[k]]

AdjustedConfidenceHarsh(base_confidence, diff) ==
    IF diff = 0 THEN Some(MinOf(base_confidence + 10, 99))
    ELSE IF diff = 1 THEN Some(MaxOf(base_confidence - 10, 40))
    ELSE IF diff = 2 THEN Some(MaxOf(base_confidence - 20, 30))
    ELSE Some(MaxOf(base_confidence - 20, 30))

\* the agreement boost without its cap at 99
AdjustedConfidenceUncapped(base_confidence, diff) ==
    IF diff = 0 THEN Some(base_confidence + 10)
    ELSE IF diff = 1 THEN None
    ELSE IF diff = 2 THEN Some(MaxOf(base_confidence - 10, 40))
    ELSE Some(MaxOf(base_confidence - 20, 30))

\* the confidence the branch of diff assigns; None where it assigns none
AdjustedConfidence(base_confidence, diff) ==
    IF diff = 0 THEN Some(MinOf(base_confidence + 10, 99))
    ELSE IF diff = 1 THEN None
    ELSE IF diff = 2 THEN Some(MaxOf(base_confidence - 10, 40))
    ELSE Some(MaxOf(base_confidence - 20, 30))

\* the label the branch of diff assigns
AgreementLabel(diff) ==
    IF diff = 0 THEN "agree"
    ELSE IF diff = 1 THEN "close"
    ELSE IF diff = 2 THEN "diverge"
    ELSE "conflict"

\* _cross_validate(forecast, zambretti): the forecast dict, updated
_cross_validate(forecast, zambretti) ==
    LET sager_code == DictGet(forecast, "forecast_code", "d")
        sager_condition == DictGet(FORECAST_CONDITIONS, sager_code, "partlycloudy")
        zambretti_condition == DictGet(zambretti, "condition", "partlycloudy")
        sager_sev == DictGet(severity, sager_condition, 1)
        zambretti_sev == DictGet(severity, zambretti_condition, 1)
        base_confidence == DictGet(forecast, "confidence", 80)
        diff == Abs(sager_sev - zambretti_sev)
        adjusted == AdjustedConfidence(base_confidence, diff)
        with_confidence == IF adjusted.some
                           THEN DictSet(forecast, "confidence", adjusted.v)
                           ELSE forecast
        with_label == DictSet(with_confidence, "cross_validation",
                              AgreementLabel(diff))
    IN  DictSet(with_label, "zambretti_condition", zambretti_condition)

-----------------------------------------------------------------------------
(* Entity states.  hass.states.get(entity_id) is a record                  *)
(*   [k |-> kind, v |-> number, unit |-> unit_of_measurement]              *)
(* kind "absent": no such state (None); "unavailable", "unknown", "none",  *)
(* "on", "off": that state string; "text": a string float() rejects;       *)
(* "num": the decimal of v; "inf", "nan": strings float() reads as such.   *)
(* The entity id of a configuration key is the key itself.                 *)

Raw(k, v, unit) == [k |-> k, v |-> v, unit |-> unit]

Absent == Raw("absent", 0, "")

NOT_A_READING == {"unavailable", "unknown", "none"}

\* "state and state.state not in ('unavailable', 'unknown', 'none')"
Usable(state) == state.k # "absent" /\ state.k \notin NOT_A_READING

\* float(state.state) succeeds
Parses(state) == state.k \in {"num", "inf", "nan"}

\* self.config_data.get(key) is truthy
Configured(config, key) == key \in config

-----------------------------------------------------------------------------
(* coordinator.py: the lux model *)

\* the Kasten & Czeplak clear-sky illuminance, rounded to whole lux, at the
\* whole elevations 1..90 degrees:
\*   172278 * (0.271 + 0.706 * 0.6 ** airmass_term) * sin(elevation)
ClearSkyLux ==
 <<
    815, 1630, 2446, 3271, 4120, 5012, 5965, 6993, 8106, 9306,
    10595, 11968, 13423, 14954, 16554, 18218, 19940, 21714, 23534, 25395,
    27292, 29220, 31174, 33152, 35148, 37159, 39182, 41213, 43251, 45291,
    47332, 49371, 51405, 53433, 55452, 57461, 59458, 61441, 63408, 65358,
    67289, 69200, 71090, 72956, 74799, 76617, 78407, 80171, 81906, 83611,
    85286, 86929, 88540, 90118, 91661, 93170, 94642, 96079, 97478, 98840,
    100162, 101446, 102690, 103894, 105057, 106178, 107258, 108295, 109289, 110240,
    111147, 112010, 112828, 113602, 114330, 115013, 115650, 116241, 116785, 117283,
    117734, 118138, 118495, 118805, 119067, 119282, 119449, 119569, 119640, 119664
 >>

\* 1000 * e ** (n / 100), rounded, for n = 1..101: the table math.log is
\* computed from
ExpMilli ==
 <<
    1010, 1020, 1030, 1041, 1051, 1062, 1073, 1083, 1094, 1105,
    1116, 1127, 1139, 1150, 1162, 1174, 1185, 1197, 1209, 1221,
    1234, 1246, 1259, 1271, 1284, 1297, 1310, 1323, 1336, 1350,
    1363, 1377, 1391, 1405, 1419, 1433, 1448, 1462, 1477, 1492,
    1507, 1522, 1537, 1553, 1568, 1584, 1600, 1616, 1632, 1649,
    1665, 1682, 1699, 1716, 1733, 1751, 1768, 1786, 1804, 1822,
    1840, 1859, 1878, 1896, 1916, 1935, 1954, 1974, 1994, 2014,
    2034, 2054, 2075, 2096, 2117, 2138, 2160, 2181, 2203, 2226,
    2248, 2270, 2293, 2316, 2340, 2363, 2387, 2411, 2435, 2460,
    2484, 2509, 2535, 2560, 2586, 2612, 2638, 2664, 2691, 2718,
    2746
 >>

\* floor(math.log(num / den) * 100.0) for num, den > 0, exact between -100
\* and 100 (to the table's rounding) and saturating at -101 and 101
Ln100(num, den) ==
    IF num >= den
    THEN Cardinality({n \in 1..Len(ExpMilli) :
                        ExpMilli[n] * den <= MinOf(num, 3 * den) * 1000})
    ELSE -(1 + Cardinality({n \in 1..(Len(ExpMilli) - 1) :
                        ExpMilli[n] * num < MinOf(den, 3 * num) * 1000}))

\* self._open_meteo_data.current_cloud_cover when both are not None
OpenMeteoCloud(od) ==
    IF od.some /\ od.current_cloud_cover.some
    THEN Some(od.current_cloud_cover.v)
    ELSE None

Returned(v) == [raised |-> FALSE, v |-> v]

\* a ValueError leaving the function
ValueError == [raised |-> TRUE, v |-> 0]

\* max(0.0, min(100.0, cloud_cover))
LuxClamp(cloud_cover) == MaxOf(0, MinOf(100, cloud_cover))

\* _lux_to_cloud_cover(lux): lux is the parsed float, sun the state of
\* sun.sun (kind "num": its elevation attribute; "noattr": no such
\* attribute, read as 0; "text": a non-numeric attribute), od the cached
\* self._open_meteo_data
_lux_to_cloud_cover(lux, sun, od) ==
    IF sun.k = "absent" THEN Returned(50)
    ELSE IF sun.k = "text" THEN Returned(50)
    ELSE LET elevation == IF sun.k = "num" THEN sun.v ELSE 0
             ext == OpenMeteoCloud(od)
         IN  IF elevation <= 1
             THEN (IF ext.some THEN Returned(ext.v) ELSE Returned(50))
             ELSE LET clear_sky_lux == ClearSkyLux[elevation]
                  IN  IF clear_sky_lux <= 0 THEN Returned(50)
                      \* factor = clear_sky_lux / inf = 0.0: math.log raises
                      ELSE IF lux.k = "inf" THEN ValueError
                      \* nan propagates to min(100.0, nan) = 100.0
                      ELSE IF lux.k = "nan" THEN Returned(100)
                      \* max(lux, 0.001) = 0.001
                      ELSE IF lux.v < 1
                      THEN Returned(LuxClamp(Ln100(clear_sky_lux * 1000, 1)))
                      ELSE Returned(LuxClamp(Ln100(clear_sky_lux, lux.v)))

\* max(CLOUD_COVER_MIN, min(CLOUD_COVER_MAX, value)) of a parsed float
PercentClamp(value) ==
    IF value.k = "num"
    THEN MaxOf(CLOUD_COVER_MIN, MinOf(CLOUD_COVER_MAX, value.v))
    ELSE CLOUD_COVER_MAX

\* _get_cloud_cover
_get_cloud_cover(config, states, od) ==
    LET state == states[CONF_CLOUD_COVER_ENTITY]
    IN  IF ~Configured(config, CONF_CLOUD_COVER_ENTITY) THEN Returned(0)
        ELSE IF ~Usable(state) THEN Returned(0)
        ELSE IF ~Parses(state) THEN Returned(0)
        ELSE IF state.unit = "lx"
        THEN _lux_to_cloud_cover(state, states["sun.sun"], od)
        ELSE Returned(PercentClamp(state))

-----------------------------------------------------------------------------
(* coordinator.py: _get_sensor_data and _calculate_reliability *)

\* one pass of the loop over entities_map: the value stored under data_key
RangeChecked(configured, state, default, min_val, max_val) ==
    IF ~configured THEN default
    ELSE IF ~Usable(state) THEN default
    ELSE IF ~Parses(state) THEN default
    ELSE IF state.k = "num" /\ min_val <= state.v /\ state.v <= max_val
    THEN state.v
    ELSE default

\* 1013.25 hPa, in hundredths
DEFAULT_PRESSURE == 101325

\* data["raining"]: None counts as False
Raining(config, states) ==
    /\ Configured(config, CONF_RAINING_ENTITY)
    /\ states[CONF_RAINING_ENTITY].k \in {"on", "true", "1"}

\* data["temperature"]; the temperatures read are finite decimals
Temperature(config, states) ==
    LET state == states[CONF_TEMPERATURE_ENTITY]
    IN  IF Configured(config, CONF_TEMPERATURE_ENTITY) /\ Usable(state)
           /\ Parses(state)
        THEN Some(state.v)
        ELSE None

\* _get_sensor_data: [raised, data]
_get_sensor_data(config, states, od) ==
    LET cloud == _get_cloud_cover(config, states, od)
    IN  [raised |-> cloud.raised,
         data |->
           [pressure |->
                RangeChecked(Configured(config, CONF_PRESSURE_ENTITY),
                             states[CONF_PRESSURE_ENTITY], DEFAULT_PRESSURE,
                             PRESSURE_MIN * Centi, PRESSURE_MAX * Centi),
            wind_direction |->
                RangeChecked(Configured(config, CONF_WIND_DIR_ENTITY),
                             states[CONF_WIND_DIR_ENTITY], 0,
                             WIND_DIR_MIN, WIND_DIR_MAX),
            wind_speed |->
                RangeChecked(Configured(config, CONF_WIND_SPEED_ENTITY),
                             states[CONF_WIND_SPEED_ENTITY], 0,
                             WIND_SPEED_MIN, WIND_SPEED_MAX),
            wind_historic |->
                RangeChecked(Configured(config, CONF_WIND_HISTORIC_ENTITY),
                             states[CONF_WIND_HISTORIC_ENTITY], 0,
                             WIND_DIR_MIN, WIND_DIR_MAX),
            pressure_change |->
                RangeChecked(Configured(config, CONF_PRESSURE_CHANGE_ENTITY),
                             states[CONF_PRESSURE_CHANGE_ENTITY], 0,
                             PRESSURE_CHANGE_MIN * Centi,
                             PRESSURE_CHANGE_MAX * Centi),
            cloud_cover |-> cloud.v,
            raining |-> Raining(config, states),
            temperature |-> Temperature(config, states)]]

\* (config_key, label, weight)
critical_entities ==
    << <<CONF_PRESSURE_ENTITY, "pressure", 20>>,
       <<CONF_WIND_DIR_ENTITY, "wind_direction", 15>>,
       <<CONF_WIND_SPEED_ENTITY, "wind_speed", 10>>,
       <<CONF_WIND_HISTORIC_ENTITY, "wind_historic", 20>>,
       <<CONF_PRESSURE_CHANGE_ENTITY, "pressure_change", 20>>,
       <<CONF_CLOUD_COVER_ENTITY, "cloud_cover", 15>> >>

RECURSIVE ScoreFrom(_, _, _)
\* the score the loop adds up from entry i on
ScoreFrom(i, config, states) ==
    IF i > Len(critical_entities) THEN 0
    ELSE (IF Configured(config, critical_entities[i][1])
             /\ Usable(states[critical_entities[i][1]])
          THEN critical_entities[i][3] ELSE 0)
         + ScoreFrom(i + 1, config, states)

ReliabilityOfConfigured(config, states) ==
    [score |-> MinOf(ScoreFrom(1, config, [e \in DOMAIN states |-> Raw("num", 0, "")]), 100),
     sensor_status |-> <<>>]

\* _calculate_reliability
_calculate_reliability(config, states) ==
    [score |-> MinOf(ScoreFrom(1, config, states), 100),
     sensor_status |->
        [i \in 1..Len(critical_entities) |->
            IF ~Configured(config, critical_entities[i][1])
            THEN <<critical_entities[i][2], "not configured">>
            ELSE IF Usable(states[critical_entities[i][1]])
            THEN <<critical_entities[i][2], "ok">>
            ELSE <<critical_entities[i][2], "unavailable">>]]

-----------------------------------------------------------------------------
(* open_meteo.py and coordinator.py: the external forecast fetch *)

\* self._open_meteo_data is None
NoOpenMeteoData ==
    [some |-> FALSE, current_cloud_cover |-> None, hourly |-> <<>>, daily |-> <<>>]

\* OpenMeteoData, as _parse_response builds it: current_cloud_cover is
\* int(current["cloud_cover"]) of whatever the service sent, or None
OpenMeteoData(cloud, hourly, daily) ==
    [some |-> TRUE, current_cloud_cover |-> cloud, hourly |-> hourly, daily |-> daily]

\* What async_get_forecast can do: return parsed data ("ok"), raise
\* OpenMeteoError on a timeout, a connection error or a status other than
\* 200 ("failed"), or let another exception escape, such as the ValueError
\* of response.json() on a body that is not JSON ("bad_response")
FETCH_OUTCOMES == {"ok", "failed", "bad_response"}

FetchFailedDropsData(fs) ==
    [fs EXCEPT !.failures = @ + 1, !.data = NoOpenMeteoData]

\* the except OpenMeteoError branch
FetchFailed(fs) == [fs EXCEPT !.failures = @ + 1]

\* the try branch after a successful await
FetchSucceeded(fs, t, response) ==
    [data |-> response, last_fetch |-> Some(t), failures |-> 0]

\* the gate measured against the refresh interval instead of the fetch interval
FetchNotDueWithinRefreshInterval(fs, t) ==
    fs.last_fetch.some /\ t - fs.last_fetch.v < UPDATE_INTERVAL_MINUTES

\* the interval has not elapsed since the last successful fetch
FetchNotDue(fs, t) ==
    fs.last_fetch.some /\ t - fs.last_fetch.v < OPEN_METEO_UPDATE_INTERVAL_MINUTES

\* _async_fetch_open_meteo at time t, fs = [data, last_fetch, failures]:
\* the three fields afterwards, what happened, and whether an exception left
_async_fetch_open_meteo(fs, t, outcome, response) ==
    IF FetchNotDue(fs, t)
    THEN [raised |-> FALSE, did |-> "skipped", fs |-> fs]
    ELSE IF outcome = "ok"
    THEN [raised |-> FALSE, did |-> "ok", fs |-> FetchSucceeded(fs, t, response)]
    ELSE IF outcome = "failed"
    THEN [raised |-> FALSE, did |-> "failed", fs |-> FetchFailed(fs)]
    ELSE [raised |-> TRUE, did |-> "bad_response", fs |-> fs]

-----------------------------------------------------------------------------
(* coordinator.py: _async_update_data *)

\* coordinator.data before the first successful refresh
NoData == [some |-> FALSE]

\* "Use Open-Meteo cloud cover as fallback if no local sensor"
CloudFallback(config, sensor_data, od) ==
    IF ~Configured(config, CONF_CLOUD_COVER_ENTITY) /\ OpenMeteoCloud(od).some
    THEN [sensor_data EXCEPT !.cloud_cover = OpenMeteoCloud(od).v]
    ELSE sensor_data

\* open_meteo_result
OpenMeteoResult(fs) ==
    [available |-> fs.data.some,
     hourly |-> IF fs.data.some THEN fs.data.hourly ELSE <<>>,
     daily |-> IF fs.data.some THEN fs.data.daily ELSE <<>>,
     last_updated |-> fs.last_fetch]

\* the dict the try block and the lines after it build
CycleResult(config, states, lat, sensor_data, fs) ==
    LET zambretti == _zambretti_forecast(sensor_data)
    IN  [some |-> TRUE,
         sensor_data |-> sensor_data,
         forecast |-> _cross_validate(_sager_algorithm(sensor_data, lat), zambretti),
         zambretti |-> zambretti,
         reliability |-> _calculate_reliability(config, states),
         open_meteo |-> OpenMeteoResult(fs)]

\* One run of _async_update_data: the sensor data is read first, then the
\* external forecast is fetched, then the engines run.  UpdateFailed leaves
\* coordinator.data as it was and clears last_update_success
\* (DataUpdateCoordinator).
UpdateCycle(config, states, lat, fs, t, outcome, response) ==
    LET read == _get_sensor_data(config, states, fs.data)
        fetched == _async_fetch_open_meteo(fs, t, outcome, response)
    IN  IF read.raised
        THEN [failed |-> TRUE, did |-> "not_reached", fs |-> fs, result |-> NoData]
        ELSE IF fetched.raised
        THEN [failed |-> TRUE, did |-> fetched.did, fs |-> fetched.fs,
              result |-> NoData]
        ELSE [failed |-> FALSE, did |-> fetched.did, fs |-> fetched.fs,
              result |-> CycleResult(config, states, lat,
                            CloudFallback(config, read.data, fetched.fs.data),
                            fetched.fs)]

-----------------------------------------------------------------------------
(* Bounds of the model *)

\* the clock runs to MaxTicks update intervals
MaxTicks == 3

\* consecutive fetch failures modelled
MaxFailures == 2

\* what the external service reports as current cloud cover
ExtCloudCovers == {None, Some(40), Some(101)}

Responses == {OpenMeteoData(c, <<>>, <<>>) : c \in ExtCloudCovers}

Latitudes == {450, -450}

ENTITIES ==
    {CONF_PRESSURE_ENTITY, CONF_WIND_DIR_ENTITY, CONF_WIND_SPEED_ENTITY,
     CONF_WIND_HISTORIC_ENTITY, CONF_PRESSURE_CHANGE_ENTITY,
     CONF_CLOUD_COVER_ENTITY, CONF_RAINING_ENTITY, CONF_TEMPERATURE_ENTITY,
     "sun.sun"}

Num(v) == Raw("num", v, "")

\* the configurations: every input, no cloud-cover sensor, the two required
Configs ==
    {ENTITIES \ {"sun.sun"},
     ENTITIES \ {"sun.sun", CONF_CLOUD_COVER_ENTITY},
     {CONF_PRESSURE_ENTITY, CONF_WIND_DIR_ENTITY}}

\* the readings that are combined with each other
Readings(e) ==
    CASE e = CONF_PRESSURE_ENTITY -> {Num(98000), Num(100200)}
      [] e = CONF_WIND_DIR_ENTITY -> {Num(200), Num(360)}
      [] e = CONF_WIND_SPEED_ENTITY -> {Num(10)}
      [] e = CONF_WIND_HISTORIC_ENTITY -> {Num(10), Absent}
      [] e = CONF_PRESSURE_CHANGE_ENTITY -> {Num(-200), Num(400)}
      [] e = CONF_CLOUD_COVER_ENTITY ->
            {Raw("num", 30, "%"), Raw("num", 20000, "lx"), Raw("inf", 0, "lx")}
      [] e = CONF_RAINING_ENTITY -> {Raw("on", 0, ""), Raw("off", 0, "")}
      [] e = CONF_TEMPERATURE_ENTITY -> {Num(1)}
      [] OTHER -> {Num(30), Num(0)}

\* the readings each entity takes alone, the others at the first scenario
Deviations(e) ==
    CASE e = CONF_PRESSURE_ENTITY ->
            {Absent, Raw("unavailable", 0, ""), Raw("text", 0, ""),
             Num(89999), Num(90000), Num(110000), Num(110001),
             Raw("inf", 0, ""), Raw("nan", 0, ""), Num(101300), Num(103000)}
      [] e = CONF_WIND_DIR_ENTITY ->
            {Raw("unknown", 0, ""), Num(-1), Num(0), Num(90), Num(361)}
      [] e = CONF_WIND_SPEED_ENTITY -> {Num(0), Num(301), Raw("none", 0, "")}
      [] e = CONF_WIND_HISTORIC_ENTITY -> {Num(0), Num(360), Num(361), Num(250)}
      [] e = CONF_PRESSURE_CHANGE_ENTITY ->
            {Num(0), Num(-5001), Num(5000), Num(-330), Num(100), Raw("text", 0, "")}
      [] e = CONF_CLOUD_COVER_ENTITY ->
            {Raw("num", 150, "%"), Raw("num", -5, "%"), Raw("num", 90, "W/m2"),
             Raw("num", 0, "lx"), Raw("nan", 0, "lx"), Raw("unavailable", 0, "%"),
             Raw("text", 0, "lx")}
      [] e = CONF_RAINING_ENTITY -> {Absent, Raw("unavailable", 0, "")}
      [] e = CONF_TEMPERATURE_ENTITY ->
            {Num(5), Num(2), Raw("text", 0, ""), Raw("none", 0, ""), Absent}
      [] OTHER -> {Absent, Raw("text", 0, ""), Raw("noattr", 0, ""), Num(1), Num(90)}

\* the first scenario: 980 hPa falling by 2.0 hPa, raining
Baseline ==
    [e \in ENTITIES |->
        CASE e = CONF_PRESSURE_ENTITY -> Num(98000)
          [] e = CONF_WIND_DIR_ENTITY -> Num(200)
          [] e = CONF_WIND_SPEED_ENTITY -> Num(10)
          [] e = CONF_WIND_HISTORIC_ENTITY -> Num(10)
          [] e = CONF_PRESSURE_CHANGE_ENTITY -> Num(-200)
          [] e = CONF_CLOUD_COVER_ENTITY -> Raw("num", 20000, "lx")
          [] e = CONF_RAINING_ENTITY -> Raw("on", 0, "")
          [] e = CONF_TEMPERATURE_ENTITY -> Num(1)
          [] OTHER -> Num(30)]

\* the entities a configuration reads
Read(config) ==
    config \cup (IF CONF_CLOUD_COVER_ENTITY \in config THEN {"sun.sun"} ELSE {})

\* the readings of an entity under a configuration: an entity it does not
\* read has no state
ReadingsUnder(config, e) == IF e \in Read(config) THEN Readings(e) ELSE {Absent}

\* the states of the entities under a configuration; the sun matters only
\* to a cloud-cover sensor that reports lux
HassStates(config) ==
    {s \in
        {(CONF_PRESSURE_ENTITY :> p) @@ (CONF_WIND_DIR_ENTITY :> wd) @@
         (CONF_WIND_SPEED_ENTITY :> ws) @@ (CONF_WIND_HISTORIC_ENTITY :> wh) @@
         (CONF_PRESSURE_CHANGE_ENTITY :> pc) @@ (CONF_CLOUD_COVER_ENTITY :> cc) @@
         (CONF_RAINING_ENTITY :> rn) @@ (CONF_TEMPERATURE_ENTITY :> tp) @@
         ("sun.sun" :> sun) :
            p \in ReadingsUnder(config, CONF_PRESSURE_ENTITY),
            wd \in ReadingsUnder(config, CONF_WIND_DIR_ENTITY),
            ws \in ReadingsUnder(config, CONF_WIND_SPEED_ENTITY),
            wh \in ReadingsUnder(config, CONF_WIND_HISTORIC_ENTITY),
            pc \in ReadingsUnder(config, CONF_PRESSURE_CHANGE_ENTITY),
            cc \in ReadingsUnder(config, CONF_CLOUD_COVER_ENTITY),
            rn \in ReadingsUnder(config, CONF_RAINING_ENTITY),
            tp \in ReadingsUnder(config, CONF_TEMPERATURE_ENTITY),
            sun \in ReadingsUnder(config, "sun.sun")} :
        s[CONF_CLOUD_COVER_ENTITY].unit # "lx" => s["sun.sun"] \in {Num(30), Absent}}
    \cup
    UNION {{[e \in ENTITIES |->
                IF e = d THEN r
                ELSE IF e \in Read(config) THEN Baseline[e] ELSE Absent] :
             r \in Deviations(d)} : d \in Read(config)}

-----------------------------------------------------------------------------
(* The coordinator's refresh cycle *)

NoCall == [fn |-> "none"]

Init ==
    /\ latitude \in Latitudes
    /\ config_data \in Configs
    /\ hass \in HassStates(config_data)
    /\ open_meteo_data = NoOpenMeteoData
    /\ open_meteo_last_fetch = None
    /\ open_meteo_failures = 0
    /\ last_update_success = TRUE
    /\ data = NoData
    /\ now = 0
    /\ fetch_outcome = "none"
    /\ call = NoCall

\* one refresh: coordinator.async_refresh() running _async_update_data
async_refresh ==
    \E outcome \in FETCH_OUTCOMES, response \in Responses :
        \E cycle \in {UpdateCycle(config_data, hass, latitude,
                                  [data |-> open_meteo_data,
                                   last_fetch |-> open_meteo_last_fetch,
                                   failures |-> open_meteo_failures],
                                  now, outcome, response)} :
            /\ cycle.fs.failures <= MaxFailures
            /\ open_meteo_data' = cycle.fs.data
            /\ open_meteo_last_fetch' = cycle.fs.last_fetch
            /\ open_meteo_failures' = cycle.fs.failures
            /\ fetch_outcome' = cycle.did
            /\ last_update_success' = ~cycle.failed
            /\ data' = IF cycle.failed THEN data ELSE cycle.result
            /\ UNCHANGED <<latitude, config_data, hass, now, call>>

\* update_interval passes
Tick ==
    /\ now + UPDATE_INTERVAL_MINUTES <= MaxTicks * UPDATE_INTERVAL_MINUTES
    /\ now' = now + UPDATE_INTERVAL_MINUTES
    /\ UNCHANGED <<latitude, config_data, hass, open_meteo_data,
                   open_meteo_last_fetch, open_meteo_failures,
                   last_update_success, data, fetch_outcome, call>>

Next == async_refresh \/ Tick

Spec == Init /\ [][Next]_vars

-----------------------------------------------------------------------------
(* Single calls of the calculators.  The coordinator is constructed and    *)
(* idle: no refresh runs, and `call` holds one method call on it, first    *)
(* its arguments and then, once the call has run, its result.              *)

\* a coordinator on which no refresh has run, no entity having a state
Constructed ==
    /\ latitude \in Latitudes
    /\ config_data = {}
    /\ open_meteo_last_fetch = None
    /\ open_meteo_failures = 0
    /\ last_update_success = TRUE
    /\ data = NoData
    /\ now = 0
    /\ fetch_outcome = "none"

NoStates == [e \in ENTITIES |-> Absent]

\* the call returns: the arguments stay, the result is filled in
Return(result) ==
    /\ ~call.done
    /\ call' = [call EXCEPT !.done = TRUE, !.ret = result]
    /\ UNCHANGED coordinator_vars

\* ---- _get_wind_trend(current, historic), both ways round ----

\* the directions the range check of _get_sensor_data lets through
WindDirections == WIND_DIR_MIN..WIND_DIR_MAX

InitWind ==
    /\ Constructed
    /\ hass = NoStates
    /\ open_meteo_data = NoOpenMeteoData
    /\ \E current \in WindDirections, historic \in WindDirections :
          call = [fn |-> "_get_wind_trend", current |-> current,
                  historic |-> historic, done |-> FALSE, ret |-> <<0, 0>>]

\* ret[1] is _get_wind_trend(current, historic), ret[2] the same call with
\* the two directions exchanged
call_get_wind_trend ==
    /\ call.fn = "_get_wind_trend"
    /\ Return(<<_get_wind_trend(call.current, call.historic,
                                _is_southern(latitude)),
                _get_wind_trend(call.historic, call.current,
                                _is_southern(latitude))>>)

NextWind == call_get_wind_trend

SpecWind == InitWind /\ [][NextWind]_vars

\* ---- _get_hpa_level(hpa) ----

\* the pressures the range check of _get_sensor_data lets through
Pressures == (PRESSURE_MIN * Centi)..(PRESSURE_MAX * Centi)

InitHpa ==
    /\ Constructed
    /\ hass = NoStates
    /\ open_meteo_data = NoOpenMeteoData
    /\ \E hpa \in Pressures :
          call = [fn |-> "_get_hpa_level", hpa |-> hpa, done |-> FALSE,
                  ret |-> 0]

call_get_hpa_level ==
    /\ call.fn = "_get_hpa_level"
    /\ Return(_get_hpa_level(call.hpa))

NextHpa == call_get_hpa_level

SpecHpa == InitHpa /\ [][NextHpa]_vars

\* ---- _sager_algorithm(data) ----

\* one pressure in each band of HPA_LEVELS, level 1 first
BandPressures == <<103000, 102000, 101500, 101000, 100200, 99000, 98000, 97000>>

\* sensor data as _get_sensor_data returns it, every field inside its range
SensorData ==
    {[pressure |-> BandPressures[level], wind_direction |-> wd,
      wind_speed |-> ws, wind_historic |-> wh, pressure_change |-> pc,
      cloud_cover |-> cc, raining |-> rn, temperature |-> tp] :
        level \in DOMAIN BandPressures, wd \in {10, 200}, ws \in {0, 10},
        wh \in {0, 10, 200}, pc \in {-200, -100, 0, 100, 200},
        cc \in {10, 30, 60, 90}, rn \in BOOLEAN,
        tp \in {None, Some(1), Some(5)}}

InitSager ==
    /\ Constructed
    /\ hass = NoStates
    /\ open_meteo_data = NoOpenMeteoData
    /\ \E d \in SensorData :
          call = [fn |-> "_sager_algorithm", d |-> d, done |-> FALSE,
                  ret |-> [confidence |-> 0]]

call_sager_algorithm ==
    /\ call.fn = "_sager_algorithm"
    /\ Return(_sager_algorithm(call.d, latitude))

NextSager == call_sager_algorithm

SpecSager == InitSager /\ [][NextSager]_vars

\* ---- _lux_to_cloud_cover(lux) ----

\* lux readings are 0, 1 and the multiples of LuxStep up to MaxLuxSteps
LuxStep == 10000

MaxLuxSteps == 13

LuxReadings ==
    {Raw("num", v, "lx") : v \in {0, 1} \cup {LuxStep * k : k \in 1..MaxLuxSteps}}

\* sun.sun: absent, an elevation that is not a number, no elevation
\* attribute, and every whole elevation
SunStates ==
    {Absent, Raw("text", 0, ""), Raw("noattr", 0, "")}
    \cup {Num(e) : e \in (-Len(ClearSkyLux))..Len(ClearSkyLux)}

InitLux ==
    /\ Constructed
    /\ \E sun \in SunStates : hass = [NoStates EXCEPT !["sun.sun"] = sun]
    /\ open_meteo_data \in {NoOpenMeteoData} \cup Responses
    /\ \E lux \in LuxReadings :
          call = [fn |-> "_lux_to_cloud_cover", lux |-> lux, done |-> FALSE,
                  ret |-> Returned(0)]

call_lux_to_cloud_cover ==
    /\ call.fn = "_lux_to_cloud_cover"
    /\ Return(_lux_to_cloud_cover(call.lux, hass["sun.sun"], open_meteo_data))

NextLux == call_lux_to_cloud_cover

SpecLux == InitLux /\ [][NextLux]_vars

-----------------------------------------------------------------------------
(* Properties *)

\* the signed angular difference of _get_wind_trend, in [-180, 180)
SignedDifference(current, historic) ==
    ((current - historic + 180) % 360) - 180

WindCallDone == call.fn = "_get_wind_trend" /\ call.done

\* C1, as the specification states it: with current wind direction 200 and
\* historic wind direction 10, _get_wind_trend returns VEERING (2) in the
\* northern hemisphere and BACKING (3) in the southern hemisphere.
C1_FlipVeersInTheNorth ==
    (WindCallDone /\ call.current = 200 /\ call.historic = 10)
        => call.ret[1] = (IF latitude >= 0 THEN 2 ELSE 3)

\* C1, as the code computes it: with current wind direction 200 and historic
\* wind direction 10 the signed difference is -170, so _get_wind_trend
\* returns BACKING (3) in the northern hemisphere and VEERING (2) in the
\* southern hemisphere.
C1_FlipBacksInTheNorth ==
    (WindCallDone /\ call.current = 200 /\ call.historic = 10)
        => /\ SignedDifference(call.current, call.historic) = -170
           /\ call.ret[1] = (IF latitude >= 0 THEN 3 ELSE 2)

C1_Witness ==
    /\ WindCallDone
    /\ call.current = 200
    /\ call.historic = 10
    /\ latitude >= 0
    /\ call.ret[1] = 3

\* C6, as the specification states it: _get_wind_trend(d, d) is STEADY for
\* every d in [0,360], and for every pair of directions in [0,360] whose
\* signed difference is more than 45 degrees either way, the two orders of
\* the pair give opposite non-steady trends.
C6_SymmetryOnEveryPair ==
    WindCallDone =>
        /\ call.current = call.historic => call.ret[1] = 1
        /\ Abs(SignedDifference(call.current, call.historic)) > 45
              => {call.ret[1], call.ret[2]} = {2, 3}

\* C6, as the code computes it: _get_wind_trend(d, d) is STEADY for every d
\* in [0,360]; the two orders of a pair give opposite non-steady trends when
\* neither direction is 0 and the signed difference is more than 45 and less
\* than 180 degrees either way; when either direction is 0 both orders are
\* STEADY; and at a difference of exactly 180 degrees both orders give the
\* same non-steady trend.
C6_SymmetryOffTheSentinel ==
    WindCallDone =>
        LET diff == Abs(SignedDifference(call.current, call.historic))
            sentinel == call.current = 0 \/ call.historic = 0
        IN  /\ call.current = call.historic => call.ret[1] = 1
            /\ (~sentinel /\ 45 < diff /\ diff < 180)
                  => {call.ret[1], call.ret[2]} = {2, 3}
            /\ sentinel => call.ret = <<1, 1>>
            /\ (~sentinel /\ diff = 180)
                  => call.ret[1] = call.ret[2] /\ call.ret[1] \in {2, 3}

C6_Witness ==
    /\ WindCallDone
    /\ call.current = 350
    /\ call.historic = 60
    /\ call.ret[1] # call.ret[2]
    /\ call.ret[1] \in {2, 3}

\* the refresh has produced data for scenario B: 980 hPa, change -2.0 hPa
\* over the window, raining
ScenarioB ==
    /\ data.some
    /\ data.sensor_data.pressure = 980 * Centi
    /\ data.sensor_data.pressure_change = -2 * Centi
    /\ data.sensor_data.raining

\* C2, as the specification states it: scenario B yields cloud level 5
\* (Raining), pressure trend 5 (Decreasing Rapidly) and the Zambretti trend
\* "falling".
C2_ScenarioBFalling ==
    ScenarioB =>
        /\ data.forecast.cloud_level = CLOUD_LEVEL_RAINING
        /\ data.forecast.pressure_trend = PRESSURE_TREND_DECREASING_RAPIDLY
        /\ data.zambretti.trend = "falling"

\* C2, as the code computes it: scenario B yields cloud level 5 (Raining)
\* whatever the cloud percentage and pressure trend 5 (Decreasing Rapidly),
\* and the Zambretti trend is "steady", because the change is halved to
\* -1.0 hPa per 3 h, which is not below -1.6.
C2_ScenarioBSteady ==
    ScenarioB =>
        /\ data.forecast.cloud_level = CLOUD_LEVEL_RAINING
        /\ CloudLevelName(5) = CLOUD_LEVEL_RAINING
        /\ data.forecast.pressure_trend = PRESSURE_TREND_DECREASING_RAPIDLY
        /\ PressureTrendName(5) = PRESSURE_TREND_DECREASING_RAPIDLY
        /\ data.zambretti.trend = "steady"

C2_Witness ==
    /\ ScenarioB
    /\ data.sensor_data.cloud_cover <= 20
    /\ data.forecast.cloud_level = CLOUD_LEVEL_RAINING
    /\ data.zambretti.trend = "steady"

SagerCallDone == call.fn = "_sager_algorithm" /\ call.done

\* the lookup key _sager_algorithm builds for sensor data d
KeyOf(d) ==
    LookupKey(_get_wind_trend(d.wind_direction, d.wind_historic,
                              _is_southern(latitude)),
              _get_hpa_level(d.pressure),
              _get_pressure_trend(d.pressure_change),
              _get_cloud_level(d.cloud_cover, d.raining))

\* the key is one of the dict literal's keys
InTable(key) == \E e \in SagerTable : e[1] = key

\* C3: for every wind trend, pressure level, pressure trend and cloud level
\* the calculators produce from in-range sensor data, the lookup key is in
\* the Sager table, so confidence 60 is never returned.
C3_TableCoversEveryKey ==
    SagerCallDone => InTable(KeyOf(call.d)) /\ call.ret.confidence # 60

\* C4: when the key built from the sensor data is in the table,
\* _sager_algorithm returns confidence 95; when it is absent it returns the
\* default entry, forecast code "d" and wind velocity
\* "no_significant_change", with confidence 60.
C4_HitOrDefault ==
    SagerCallDone =>
        IF InTable(KeyOf(call.d))
        THEN call.ret.confidence = 95
        ELSE /\ call.ret.confidence = 60
             /\ call.ret.forecast_code = "d"
             /\ call.ret.wind_velocity_key = "no_significant_change"

C4_Witness ==
    /\ SagerCallDone
    /\ ~InTable(KeyOf(call.d))
    /\ call.d.temperature.some
    /\ call.ret.confidence = 60
    /\ call.ret.forecast_code = "d"

\* severity of a Home Assistant condition, as _cross_validate ranks it
SeverityOf(condition) ==
    CASE condition \in {"sunny", "clear-night"} -> 0
      [] condition = "partlycloudy" -> 1
      [] condition = "cloudy" -> 2
      [] condition \in {"rainy", "snowy"} -> 3
      [] condition = "pouring" -> 4
      [] OTHER -> 1

\* C5: after every refresh cycle, with c the Sager confidence before
\* cross-validation and diff the distance of the two engines' severities,
\* the forecast carries min(c+10, 99) and "agree" for diff 0, c and "close"
\* for diff 1, max(c-10, 40) and "diverge" for diff 2, max(c-20, 30) and
\* "conflict" for diff >= 3; the confidence is in [30,99], diff 0 never
\* lowers it and diff >= 3 always lowers it.
C5_CrossValidationPolicy ==
    data.some =>
        LET sager == _sager_algorithm(data.sensor_data, latitude)
            c == sager.confidence
            diff == Abs(SeverityOf(FORECAST_CONDITIONS[sager.forecast_code])
                        - SeverityOf(data.zambretti.condition))
            after == data.forecast.confidence
            label == data.forecast.cross_validation
        IN  /\ diff = 0 => after = MinOf(c + 10, 99) /\ label = "agree"
            /\ diff = 1 => after = c /\ label = "close"
            /\ diff = 2 => after = MaxOf(c - 10, 40) /\ label = "diverge"
            /\ diff >= 3 => after = MaxOf(c - 20, 30) /\ label = "conflict"
            /\ 30 <= after /\ after <= 99
            /\ diff = 0 => after >= c
            /\ diff >= 3 => after < c

C5_Witness ==
    /\ data.some
    /\ data.forecast.cross_validation = "conflict"
    /\ data.forecast.confidence = 75
    /\ _sager_algorithm(data.sensor_data, latitude).confidence = 95

HpaCallDone == call.fn = "_get_hpa_level" /\ call.done

\* the bands of HPA_LEVELS whose test min <= hpa < max holds
BandsHolding(hpa) ==
    {i \in DOMAIN HPA_LEVELS :
        HPA_LEVELS[i][2] <= hpa /\ hpa < HPA_LEVELS[i][1]}

\* C7: for every pressure in [900,1100] exactly one band of HPA_LEVELS
\* holds it, _get_hpa_level returns that band's level, which is in 1..8,
\* a lower level is a higher pressure, a pressure on a breakpoint gets the
\* level of the band above the breakpoint, and _get_hpa_level(1029.46) = 1.
C7_PressureLevelPartition ==
    HpaCallDone =>
        /\ Cardinality(BandsHolding(call.hpa)) = 1
        /\ \A i \in BandsHolding(call.hpa) : call.ret = HPA_LEVELS[i][3]
        /\ call.ret \in 1..8
        /\ \A i \in DOMAIN HPA_LEVELS :
              /\ call.hpa = HPA_LEVELS[i][2] => call.ret = HPA_LEVELS[i][3]
              /\ call.hpa >= HPA_LEVELS[i][2] => call.ret <= HPA_LEVELS[i][3]
        /\ call.hpa = 102946 => call.ret = 1

C7_Witness ==
    /\ HpaCallDone
    /\ call.hpa = 102946
    /\ call.ret = 1

\* C8: after every refresh cycle the sensor data handed to the engines has
\* pressure in [900,1100], wind_direction and wind_historic in [0,360) and
\* cloud_cover in [0,100].
C8_InputDomain ==
    data.some =>
        /\ PRESSURE_MIN * Centi <= data.sensor_data.pressure
        /\ data.sensor_data.pressure <= PRESSURE_MAX * Centi
        /\ 0 <= data.sensor_data.wind_direction
        /\ data.sensor_data.wind_direction < 360
        /\ 0 <= data.sensor_data.wind_historic
        /\ data.sensor_data.wind_historic < 360
        /\ 0 <= data.sensor_data.cloud_cover
        /\ data.sensor_data.cloud_cover <= 100

LuxCallDone == call.fn = "_lux_to_cloud_cover" /\ call.done

\* C9: for every lux reading >= 0, every state of sun.sun and every state of
\* the cached external cloud cover, _lux_to_cloud_cover returns a value in
\* [0,100].
C9_CloudCoverInRange ==
    LuxCallDone =>
        /\ ~call.ret.raised
        /\ 0 <= call.ret.v
        /\ call.ret.v <= 100

\* the step is a refresh whose external fetch failed
FetchFailedStep == now' = now /\ fetch_outcome' = "failed"

\* C10: a refresh cycle whose external fetch fails adds exactly one to the
\* failure counter, leaves the fetched data and its last-fetch time as they
\* were, reports them in its result as before, and completes with the
\* Sager and Zambretti forecasts.
C10_FetchFailureKeepsData ==
    [][FetchFailedStep =>
        /\ open_meteo_failures' = open_meteo_failures + 1
        /\ open_meteo_data' = open_meteo_data
        /\ open_meteo_last_fetch' = open_meteo_last_fetch
        /\ last_update_success'
        /\ data'.some
        /\ data'.open_meteo.available = open_meteo_data.some
        /\ data'.open_meteo.last_updated = open_meteo_last_fetch
        /\ open_meteo_data.some =>
              /\ data'.open_meteo.hourly = open_meteo_data.hourly
              /\ data'.open_meteo.daily = open_meteo_data.daily
        /\ data'.zambretti = _zambretti_forecast(data'.sensor_data)
        /\ data'.forecast.forecast_code
              = _sager_algorithm(data'.sensor_data, latitude).forecast_code
    ]_vars

C10_Witness ==
    /\ fetch_outcome = "failed"
    /\ open_meteo_failures = 1
    /\ open_meteo_data.some
    /\ open_meteo_last_fetch = Some(0)
    /\ now = OPEN_METEO_UPDATE_INTERVAL_MINUTES
    /\ last_update_success
    /\ data.some
    /\ data.open_meteo.available

-----------------------------------------------------------------------------
(* Partial degradation: the refresh cycle with optional inputs missing *)

\* the inputs the integration can run without
OPTIONAL_ENTITIES ==
    {CONF_WIND_SPEED_ENTITY, CONF_WIND_HISTORIC_ENTITY,
     CONF_PRESSURE_CHANGE_ENTITY, CONF_CLOUD_COVER_ENTITY,
     CONF_RAINING_ENTITY, CONF_TEMPERATURE_ENTITY}

\* every way the optional inputs can be configured and reporting
\* ("ok"), configured and unavailable, or not configured
InputStatuses == [OPTIONAL_ENTITIES -> {"ok", "unavailable", "unconfigured"}]

\* the configuration and the entity states of one such way; the two required
\* inputs and the sun report as in the first scenario
DegradedConfig(status) ==
    {CONF_PRESSURE_ENTITY, CONF_WIND_DIR_ENTITY}
    \cup {e \in OPTIONAL_ENTITIES : status[e] # "unconfigured"}

DegradedStates(status) ==
    [e \in ENTITIES |->
        IF e \notin OPTIONAL_ENTITIES THEN Baseline[e]
        ELSE IF status[e] = "ok" THEN Baseline[e]
        ELSE IF status[e] = "unavailable" THEN Raw("unavailable", 0, "")
        ELSE Absent]

InitDegraded ==
    /\ latitude = 450
    /\ \E status \in InputStatuses :
          /\ config_data = DegradedConfig(status)
          /\ hass = DegradedStates(status)
    /\ open_meteo_data = NoOpenMeteoData
    /\ open_meteo_last_fetch = None
    /\ open_meteo_failures = 0
    /\ last_update_success = TRUE
    /\ data = NoData
    /\ now = 0
    /\ fetch_outcome = "none"
    /\ call = NoCall

SpecDegraded == InitDegraded /\ [][Next]_vars

\* the weight of an input that is configured and has a usable state, else 0
WeightIfPresent(e, weight) ==
    IF e \in config_data
       /\ hass[e].k \notin {"absent", "unavailable", "unknown", "none"}
    THEN weight ELSE 0

\* C11: whichever optional inputs are unconfigured or unavailable, a refresh
\* cycle whose external fetch returns (with data, with a failure, or skipped)
\* succeeds and returns a forecast, and the reliability score it reports is
\* the sum of the weights 20, 15, 10, 20, 20, 15 of the inputs that are
\* configured and usable, a number in [0,100].
C11_PartialDegradation ==
    fetch_outcome \in {"ok", "failed", "skipped"} =>
        /\ last_update_success
        /\ data.some
        /\ "forecast_code" \in DOMAIN data.forecast
        /\ data.reliability.score =
              WeightIfPresent(CONF_PRESSURE_ENTITY, 20)
              + WeightIfPresent(CONF_WIND_DIR_ENTITY, 15)
              + WeightIfPresent(CONF_WIND_SPEED_ENTITY, 10)
              + WeightIfPresent(CONF_WIND_HISTORIC_ENTITY, 20)
              + WeightIfPresent(CONF_PRESSURE_CHANGE_ENTITY, 20)
              + WeightIfPresent(CONF_CLOUD_COVER_ENTITY, 15)
        /\ 0 <= data.reliability.score
        /\ data.reliability.score <= 100

C11_Witness ==
    /\ fetch_outcome = "failed"
    /\ last_update_success
    /\ data.some
    /\ config_data = ENTITIES \ {"sun.sun"}
    /\ \A e \in OPTIONAL_ENTITIES : hass[e].k = "unavailable"
    /\ data.reliability.score = 35


-----------------------------------------------------------------------------
(* The weather entity's view of the coordinator (weather.py) *)

\* the keys of the dict _async_update_data returned
ResultKeys(d) == IF d.some THEN DOMAIN d \ {"some"} ELSE {}

\* ext_weather = self.coordinator.data.get("ext_weather", {})
ext_weather(d) == IF d.some THEN DictGet(d, "ext_weather", <<>>) ELSE <<>>

\* "external_weather_available": ext_weather.get("available", False)
external_weather_available(d) == DictGet(ext_weather(d), "available", FALSE)

\* C12: every cycle result has the keys sensor_data, forecast, zambretti,
\* reliability and ext_weather, and whenever the result was built while the
\* coordinator held fetched external data the weather entity reads that
\* data as available.
C12_ProducedInterface ==
    data.some =>
        /\ {"sensor_data", "forecast", "zambretti", "reliability", "ext_weather"}
               \subseteq ResultKeys(data)
        /\ (open_meteo_data.some => external_weather_available(data))


-----------------------------------------------------------------------------
(* Hourly forecast blending (weather.py).  Temperatures, wind speeds,
   precipitation amounts and the UV index are in hundredths of their unit,
   so that round(x, 1) is a real conversion.  A datetime string is a record
   [ok, hour, minute, tz]: ok is whether datetime.fromisoformat accepts it,
   tz is the offset suffix, "" for a naive string. *)

NoneStr == [some |-> FALSE, v |-> ""]

SomeStr(s) == [some |-> TRUE, v |-> s]

\* round(x, 1) of a value in hundredths: the nearest tenth, a tie to the
\* even tenth
Round1(c) ==
    LET q == c \div 10
        r == c % 10
    IN  10 * (IF r < 5 THEN q
              ELSE IF r > 5 THEN q + 1
              ELSE IF q % 2 = 0 THEN q ELSE q + 1)

DateTime(hour, minute, tz) ==
    [ok |-> TRUE, hour |-> hour, minute |-> minute, tz |-> tz]

BadDateTime == [ok |-> FALSE, hour |-> 0, minute |-> 0, tz |-> ""]

\* minutes of the offset suffix
UtcOffset(tz) == IF tz = "+01:00" THEN 60 ELSE 0

\* the instant of an aware datetime, in minutes
Instant(dt) == dt.hour * 60 + dt.minute - UtcOffset(dt.tz)

\* _parse_api_datetime: None (ok = FALSE) when fromisoformat raises, and a
\* naive datetime is taken as UTC
_parse_api_datetime(dt_str) ==
    IF ~dt_str.ok THEN BadDateTime
    ELSE IF dt_str.tz = "" THEN [dt_str EXCEPT !.tz = "+00:00"]
    ELSE dt_str

\* _parse_slot_datetime: the same, and None when the slot has no datetime
_parse_slot_datetime(slot) ==
    IF "datetime" \notin DOMAIN slot THEN BadDateTime
    ELSE _parse_api_datetime(slot["datetime"])

\* dt.replace(minute=0, second=0, microsecond=0).isoformat()
HourKey(dt) == [dt EXCEPT !.minute = 0]

WMO_TO_HA_CONDITION ==
    [code \in {0, 1} |-> "sunny"] @@ (2 :> "partlycloudy") @@ (3 :> "cloudy")
    @@ [code \in {45, 48} |-> "fog"]
    @@ [code \in {51, 53, 55, 56, 57, 61, 63, 66, 80, 81} |-> "rainy"]
    @@ [code \in {65, 67, 82} |-> "pouring"]
    @@ [code \in {71, 73, 75, 77, 85, 86} |-> "snowy"]
    @@ (95 :> "lightning")
    @@ [code \in {96, 99} |-> "lightning-rainy"]

_wmo_to_condition(weather_code) ==
    IF ~weather_code.some THEN NoneStr
    ELSE SomeStr(DictGet(WMO_TO_HA_CONDITION, weather_code.v, "partlycloudy"))

\* a or b, for optional strings: None and "" are falsy
OrStr(a, b) == IF a.some /\ a.v # "" THEN a ELSE b

\* slot[key] = value when the condition holds
SetIf(cond, slot, key, value) == IF cond THEN DictSet(slot, key, value) ELSE slot

EnrichedSlotKeepingSager(slot, ext) ==
    [datetime |-> slot["datetime"],
     condition |-> DictGet(slot, "condition", NoneStr),
     native_temperature |-> DictGet(slot, "native_temperature", None),
     precipitation_probability |->
         DictGet(slot, "precipitation_probability", None),
     native_wind_speed |-> DictGet(slot, "native_wind_speed", None),
     wind_bearing |-> DictGet(slot, "wind_bearing", None),
     cloud_coverage |-> DictGet(slot, "cloud_coverage", None),
     humidity |-> DictGet(slot, "humidity", None)]

\* _enrich_sager_slot(slot, ext)
_enrich_sager_slot(slot, ext) ==
    LET new_slot ==
            [datetime |-> slot["datetime"],
             condition |-> DictGet(slot, "condition", NoneStr),
             native_temperature |->
                 IF ext.temperature.some THEN Round1(ext.temperature.v)
                 ELSE DictGet(slot, "native_temperature", None),
             precipitation_probability |->
                 IF ext.precipitation_probability.some
                 THEN ext.precipitation_probability.v
                 ELSE DictGet(slot, "precipitation_probability", None),
             native_wind_speed |->
                 IF ext.wind_speed.some THEN Round1(ext.wind_speed.v)
                 ELSE DictGet(slot, "native_wind_speed", None),
             wind_bearing |->
                 IF ext.wind_direction.some THEN ext.wind_direction.v
                 ELSE DictGet(slot, "wind_bearing", None),
             cloud_coverage |->
                 IF ext.cloud_cover.some THEN ext.cloud_cover.v
                 ELSE DictGet(slot, "cloud_coverage", None),
             humidity |->
                 IF ext.humidity.some THEN ext.humidity.v
                 ELSE DictGet(slot, "humidity", None)]
        s1 == SetIf(ext.precipitation.some, new_slot, "native_precipitation",
                    Round1(ext.precipitation.v))
        s2 == SetIf(ext.uv_index.some, s1, "uv_index", Round1(ext.uv_index.v))
        s3 == SetIf(ext.apparent_temperature.some, s2,
                    "native_apparent_temperature",
                    Round1(ext.apparent_temperature.v))
    IN  SetIf(ext.dew_point.some, s3, "native_dew_point",
              Round1(ext.dew_point.v))

\* _build_extended_slot(entry, entry_dt)
_build_extended_slot(entry, entry_dt) ==
    LET found == OrStr(entry.condition, _wmo_to_condition(entry.weather_code))
        condition == IF found = SomeStr("sunny") /\ ~entry.is_day
                     THEN SomeStr("clear-night") ELSE found
        s0 == [datetime |-> entry_dt,
               condition |-> OrStr(condition, SomeStr("partlycloudy"))]
        s1 == SetIf(entry.temperature.some, s0, "native_temperature",
                    Round1(entry.temperature.v))
        s2 == SetIf(entry.precipitation_probability.some, s1,
                    "precipitation_probability",
                    entry.precipitation_probability.v)
        s3 == SetIf(entry.precipitation.some, s2, "native_precipitation",
                    Round1(entry.precipitation.v))
        s4 == SetIf(entry.wind_speed.some, s3, "native_wind_speed",
                    Round1(entry.wind_speed.v))
        s5 == SetIf(entry.wind_direction.some, s4, "wind_bearing",
                    entry.wind_direction.v)
        s6 == SetIf(entry.humidity.some, s5, "humidity", entry.humidity.v)
        s7 == SetIf(entry.cloud_cover.some, s6, "cloud_coverage",
                    entry.cloud_cover.v)
        s8 == SetIf(entry.uv_index.some, s7, "uv_index",
                    Round1(entry.uv_index.v))
        s9 == SetIf(entry.apparent_temperature.some, s8,
                    "native_apparent_temperature",
                    Round1(entry.apparent_temperature.v))
    IN  SetIf(entry.dew_point.some, s9, "native_dew_point",
              Round1(entry.dew_point.v))

\* the indices of the entries ext_lookup files under key
ExtMatches(ext_hourly, key) ==
    {i \in DOMAIN ext_hourly :
        /\ _parse_api_datetime(ext_hourly[i].datetime).ok
        /\ HourKey(_parse_api_datetime(ext_hourly[i].datetime)) = key}

\* ext_lookup.get(key): a later entry of the same hour replaces an earlier
ext_lookup(ext_hourly, key) ==
    IF ExtMatches(ext_hourly, key) = {} THEN [some |-> FALSE]
    ELSE [some |-> TRUE, v |-> ext_hourly[SetMax(ExtMatches(ext_hourly, key))]]

\* Step 1, one slot of sager_hourly
EnrichStep(slot, ext_hourly) ==
    LET slot_dt == _parse_slot_datetime(slot)
        ext == ext_lookup(ext_hourly, HourKey(slot_dt))
    IN  IF ~slot_dt.ok THEN slot
        ELSE IF ~ext.some THEN slot
        ELSE _enrich_sager_slot(slot, ext.v)

\* sager_latest_dt after Step 1
SagerLatest(sager_hourly) ==
    LET parsed == {i \in DOMAIN sager_hourly :
                      _parse_slot_datetime(sager_hourly[i]).ok}
    IN  IF parsed = {} THEN BadDateTime
        ELSE _parse_slot_datetime(sager_hourly[SetMax(parsed)])

EXTENDED_HOURS == 168

\* Step 2 without the skip of the entries before now
RECURSIVE ExtendBeyondFromPast(_, _, _, _)
ExtendBeyondFromPast(ext_hourly, i, sager_latest_dt, t) ==
    IF i > Len(ext_hourly) THEN <<>>
    ELSE LET entry == ext_hourly[i]
             entry_dt == _parse_api_datetime(entry.datetime)
             rest == ExtendBeyondFromPast(ext_hourly, i + 1, sager_latest_dt, t)
         IN  IF ~entry_dt.ok THEN rest
             ELSE IF sager_latest_dt.ok
                     /\ Instant(entry_dt) <= Instant(sager_latest_dt) THEN rest
             ELSE IF Instant(entry_dt) > t + EXTENDED_HOURS * 60 THEN <<>>
             ELSE <<_build_extended_slot(entry, entry_dt)>> \o rest

\* Step 2 from entry i on, at time t (minutes)
RECURSIVE ExtendBeyond(_, _, _, _)
ExtendBeyond(ext_hourly, i, sager_latest_dt, t) ==
    IF i > Len(ext_hourly) THEN <<>>
    ELSE LET entry == ext_hourly[i]
             entry_dt == _parse_api_datetime(entry.datetime)
             rest == ExtendBeyond(ext_hourly, i + 1, sager_latest_dt, t)
         IN  IF ~entry_dt.ok THEN rest
             ELSE IF sager_latest_dt.ok
                     /\ Instant(entry_dt) <= Instant(sager_latest_dt) THEN rest
             ELSE IF Instant(entry_dt) < t THEN rest
             ELSE IF Instant(entry_dt) > t + EXTENDED_HOURS * 60 THEN <<>>
             ELSE <<_build_extended_slot(entry, entry_dt)>> \o rest

\* _enrich_hourly_with_ext_weather(sager_hourly, ext_weather) at time t
_enrich_hourly_with_ext_weather(sager_hourly, ext_weather_arg, t) ==
    LET ext_hourly == DictGet(ext_weather_arg, "hourly", <<>>)
    IN  [i \in DOMAIN sager_hourly |-> EnrichStep(sager_hourly[i], ext_hourly)]
        \o ExtendBeyond(ext_hourly, 1, SagerLatest(sager_hourly), t)

\* ---- _enrich_hourly_with_ext_weather(sager_hourly, ext_weather) ----

\* the slots of the baseline in the model (the code builds 48)
BaselineSlots == 2

HOURLY_VALUES ==
    [temperature |-> "native_temperature",
     precipitation_probability |-> "precipitation_probability",
     wind_speed |-> "native_wind_speed", wind_direction |-> "wind_bearing",
     cloud_cover |-> "cloud_coverage", humidity |-> "humidity"]

\* a slot as _generate_sager_hourly_forecast builds it: on the hour, in UTC,
\* every key set, temperature and wind speed rounded to a tenth
SagerSlot(hour, condition) ==
    [datetime |-> DateTime(hour, 0, "+00:00"), condition |-> SomeStr(condition),
     native_temperature |-> 1500 + 10 * hour, precipitation_probability |-> 15,
     native_wind_speed |-> 1000, wind_bearing |-> 270, cloud_coverage |-> 30,
     humidity |-> 55]

SagerBaselines ==
    {[i \in 1..BaselineSlots |-> SagerSlot(i, condition)] :
        condition \in {"sunny", "rainy"}}

\* _is_day_from_hour
_is_day_from_hour(dt_str) == ~dt_str.ok \/ (6 <= dt_str.hour /\ dt_str.hour <= 20)

\* an entry as _parse_hourly builds it: the fields of present carry a value,
\* extras is whether the four fields outside the baseline do
HourlyEntry(datetime, present, extras, condition) ==
    LET Opt(field, v) == IF field \in present THEN Some(v) ELSE None
    IN  [datetime |-> datetime,
         temperature |-> Opt("temperature", 1234),
         humidity |-> Opt("humidity", 66),
         dew_point |-> IF extras THEN Some(561) ELSE None,
         apparent_temperature |-> IF extras THEN Some(1117) ELSE None,
         precipitation_probability |-> Opt("precipitation_probability", 70),
         precipitation |-> IF extras THEN Some(126) ELSE None,
         condition |-> condition,
         weather_code |-> None,
         cloud_cover |-> Opt("cloud_cover", 90),
         wind_speed |-> Opt("wind_speed", 1238),
         wind_direction |-> Opt("wind_direction", 200),
         uv_index |-> IF extras THEN Some(312) ELSE None,
         is_day |-> _is_day_from_hour(datetime)]

\* the datetimes of an entry: a slot's hour, inside that hour and naive, the
\* instant of slot 1 written with another offset, the hour after the
\* baseline, and text that is no datetime
EntryDateTimes ==
    {DateTime(1, 0, "+00:00"), DateTime(1, 30, ""), DateTime(2, 0, "+01:00"),
     DateTime(BaselineSlots + 1, 0, ""), BadDateTime}

HourlyEntries ==
    {HourlyEntry(dt, present, extras, SomeStr("sunny")) :
        dt \in EntryDateTimes, present \in SUBSET DOMAIN HOURLY_VALUES,
        extras \in BOOLEAN}

\* entries that share an hour with the first, or lie beyond the 7 days
MoreHourlyEntries ==
    {HourlyEntry(DateTime(1, 0, ""), {}, FALSE, NoneStr),
     HourlyEntry(DateTime(1, 0, ""), DOMAIN HOURLY_VALUES, TRUE, NoneStr),
     HourlyEntry(DateTime(EXTENDED_HOURS + 1, 0, ""), {}, FALSE, SomeStr("")),
     HourlyEntry(DateTime(BaselineSlots + 2, 0, ""), {"temperature"}, FALSE,
                 SomeStr("sunny"))}

ExtHourlyLists ==
    {<<>>} \cup {<<a>> : a \in HourlyEntries}
    \cup {<<a, b>> : a \in HourlyEntries, b \in MoreHourlyEntries}
    \cup {<<b, a>> : a \in HourlyEntries, b \in MoreHourlyEntries}

InitHourly ==
    /\ Constructed
    /\ hass = NoStates
    /\ open_meteo_data = NoOpenMeteoData
    /\ \E sager_hourly \in SagerBaselines, hourly \in ExtHourlyLists :
          call = [fn |-> "_enrich_hourly_with_ext_weather",
                  sager_hourly |-> sager_hourly,
                  ext_weather |-> [available |-> TRUE, hourly |-> hourly,
                                   daily |-> <<>>],
                  done |-> FALSE, ret |-> <<>>]

call_enrich_hourly_with_ext_weather ==
    /\ call.fn = "_enrich_hourly_with_ext_weather"
    /\ Return(_enrich_hourly_with_ext_weather(call.sager_hourly,
                                              call.ext_weather, now))

NextHourly == call_enrich_hourly_with_ext_weather

SpecHourly == InitHourly /\ [][NextHourly]_vars

HourlyCallDone == call.fn = "_enrich_hourly_with_ext_weather" /\ call.done

\* the entry of the external list that matches a slot: the last one whose
\* datetime, truncated to the hour, reads the same as the slot's
MatchingEntry(slot, hourly) ==
    LET same == {i \in DOMAIN hourly :
                    /\ hourly[i].datetime.ok
                    /\ hourly[i].datetime.hour = slot["datetime"].hour
                    /\ hourly[i].datetime.tz \in {"", slot["datetime"].tz}}
    IN  IF same = {} THEN [some |-> FALSE]
        ELSE [some |-> TRUE, v |-> hourly[SetMax(same)]]

\* slot i of the result has the datetime and the condition of slot i of the
\* baseline, and each numerical field is Taken(external value) when the
\* matching entry has one, the baseline's value otherwise
EnrichmentHolds(Taken(_, _)) ==
    /\ Len(call.ret) >= Len(call.sager_hourly)
    /\ \A i \in DOMAIN call.sager_hourly :
          LET slot == call.sager_hourly[i]
              ext == MatchingEntry(slot, call.ext_weather.hourly)
          IN  /\ call.ret[i]["datetime"] = slot["datetime"]
              /\ call.ret[i]["condition"] = slot["condition"]
              /\ \A field \in DOMAIN HOURLY_VALUES :
                    call.ret[i][HOURLY_VALUES[field]] =
                        IF ext.some /\ ext.v[field].some
                        THEN Taken(field, ext.v[field].v)
                        ELSE slot[HOURLY_VALUES[field]]

AsGiven(field, v) == v

RoundedToTenth(field, v) ==
    IF field \in {"temperature", "wind_speed"} THEN Round1(v) ELSE v

-----------------------------------------------------------------------------
(* Daily forecast (weather.py).  Temperatures, wind speeds and precipitation
   amounts are in hundredths, datetimes in minutes; precipitation
   probabilities are in percent, precip_p2 in tenths of a percent. *)

FORECAST_CODES_WARMER == {"b", "e", "h", "k", "k1", "k2", "n"}

FORECAST_CODES_COOLER ==
    {"c", "f", "l", "l1", "l2", "p", "s", "s1", "s2", "u", "u1", "u2",
     "w", "w1", "w2", "y"}

\* code -> (next_period_condition, precipitation_probability)
FORECAST_EVOLUTION ==
    [g |-> <<"rainy", 70>>, g1 |-> <<"rainy", 70>>, g2 |-> <<"snowy", 70>>,
     h |-> <<"rainy", 70>>, p |-> <<"partlycloudy", 20>>,
     r |-> <<"partlycloudy", 15>>, r1 |-> <<"partlycloudy", 15>>,
     r2 |-> <<"partlycloudy", 15>>, s |-> <<"partlycloudy", 15>>,
     s1 |-> <<"partlycloudy", 15>>, s2 |-> <<"partlycloudy", 15>>,
     t |-> <<"sunny", 5>>, t1 |-> <<"sunny", 5>>, t2 |-> <<"sunny", 5>>,
     u |-> <<"sunny", 5>>, u1 |-> <<"sunny", 5>>, u2 |-> <<"sunny", 5>>,
     w |-> <<"sunny", 5>>, w1 |-> <<"sunny", 5>>, w2 |-> <<"sunny", 5>>,
     x |-> <<"sunny", 5>>, y |-> <<"sunny", 5>>]

PRECIPITATION_PROBABILITY ==
    ("sunny" :> 0) @@ ("clear-night" :> 0) @@ ("partlycloudy" :> 15)
    @@ ("cloudy" :> 25) @@ ("rainy" :> 80) @@ ("snowy" :> 80)
    @@ ("pouring" :> 95)

MINUTES_PER_DAY == 1440

\* condition_p1
ConditionP1(forecast_code) ==
    DictGet(FORECAST_CONDITIONS, forecast_code, "partlycloudy")

\* condition_p2
ConditionP2(forecast_code) ==
    IF forecast_code \in DOMAIN FORECAST_EVOLUTION
    THEN FORECAST_EVOLUTION[forecast_code][1]
    ELSE ConditionP1(forecast_code)

\* precip_p2, in tenths of a percent
PrecipP2(forecast_code) ==
    IF forecast_code \in DOMAIN FORECAST_EVOLUTION
    THEN 10 * FORECAST_EVOLUTION[forecast_code][2]
    ELSE MaxOf(7 * DictGet(PRECIPITATION_PROBABILITY,
                           ConditionP1(forecast_code), 15), 0)

\* temp_change, in hundredths
TempChange(forecast_code) ==
    IF forecast_code \in FORECAST_CODES_WARMER THEN 300
    ELSE IF forecast_code \in FORECAST_CODES_COOLER THEN -300
    ELSE 0

\* max(int(precip_p2 * 0.6), 0)
PrecipP3(forecast_code) == MaxOf((6 * PrecipP2(forecast_code)) \div 100, 0)

\* condition or _wmo_to_condition(weather_code)
ApiCondition(api_day) ==
    OrStr(api_day.condition, _wmo_to_condition(api_day.weather_code))

\* Forecast(...) of days 1 to 3
DailyForecast(datetime, condition, temp_high, temp_low, precip) ==
    [datetime |-> datetime, condition |-> condition,
     native_temperature |-> temp_high, native_templow |-> temp_low,
     precipitation_probability |-> precip]

\* the loop body over sager_days: day_offset 0 and 1
SagerDay(day_offset, condition, precip, temp_delta, api_daily, base_temp, t) ==
    LET has_day == day_offset < Len(api_daily)
                   /\ api_daily[day_offset + 1].temperature_max.some
        api_day == api_daily[day_offset + 1]
    IN  DailyForecast(
            t + MINUTES_PER_DAY * day_offset, SomeStr(condition),
            IF has_day THEN Round1(api_day.temperature_max.v)
            ELSE Round1(base_temp + temp_delta),
            IF has_day
            THEN IF api_day.temperature_min.some
                 THEN Round1(api_day.temperature_min.v)
                 ELSE Round1(api_day.temperature_max.v - 500)
            ELSE Round1(base_temp + temp_delta - 500),
            precip)

\* Day 3 when has_api
BlendedDay3(forecast_code, api_day3, base_temp, t) ==
    LET temp_high == IF api_day3.temperature_max.some
                     THEN Round1(api_day3.temperature_max.v)
                     ELSE Round1(base_temp + (7 * TempChange(forecast_code)) \div 10)
    IN  DailyForecast(
            t + MINUTES_PER_DAY * 2,
            OrStr(ApiCondition(api_day3), SomeStr(ConditionP2(forecast_code))),
            temp_high,
            IF api_day3.temperature_min.some
            THEN Round1(api_day3.temperature_min.v)
            ELSE Round1(temp_high - 500),
            IF api_day3.precipitation_probability_max.some
            THEN (4 * PrecipP3(forecast_code)
                  + 6 * api_day3.precipitation_probability_max.v) \div 10
            ELSE PrecipP3(forecast_code))

\* Day 3 without external data
SagerDay3(forecast_code, base_temp, t) ==
    DailyForecast(
        t + MINUTES_PER_DAY * 2, SomeStr(ConditionP2(forecast_code)),
        Round1(base_temp + (7 * TempChange(forecast_code)) \div 10),
        Round1(base_temp + (7 * TempChange(forecast_code)) \div 10 - 500),
        PrecipP3(forecast_code))

ExternalDayAsSager(api_day, day_offset, base_temp, t) ==
    [datetime |-> t + MINUTES_PER_DAY * day_offset,
     condition |-> SomeStr("partlycloudy"),
     native_temperature |-> Round1(base_temp),
     native_templow |-> Round1(base_temp - 500),
     precipitation_probability |-> 0,
     native_precipitation |-> None, wind_bearing |-> None,
     native_wind_speed |-> None]

\* Days 4-7: the Forecast of api_daily[day_offset]
ExternalDay(api_day, day_offset, base_temp, t) ==
    [datetime |-> t + MINUTES_PER_DAY * day_offset,
     condition |-> OrStr(ApiCondition(api_day), SomeStr("partlycloudy")),
     native_temperature |->
         IF api_day.temperature_max.some
         THEN Round1(api_day.temperature_max.v) ELSE Round1(base_temp),
     native_templow |->
         IF api_day.temperature_min.some
         THEN Round1(api_day.temperature_min.v) ELSE Round1(base_temp - 500),
     precipitation_probability |->
         IF api_day.precipitation_probability_max.some
         THEN api_day.precipitation_probability_max.v ELSE 0,
     native_precipitation |->
         IF api_day.precipitation_sum.some
         THEN Some(Round1(api_day.precipitation_sum.v)) ELSE None,
     wind_bearing |-> api_day.wind_direction_dominant,
     native_wind_speed |->
         IF api_day.wind_speed_max.some
         THEN Some(Round1(api_day.wind_speed_max.v)) ELSE None]

\* _generate_daily_forecast(sager_result, ext_weather) at time t, with
\* base_temp = self.native_temperature or 15.0
_generate_daily_forecast(sager_result, ext_weather_arg, base_temp, t) ==
    LET forecast_code == DictGet(sager_result, "forecast_code", "d")
        condition_p1 == ConditionP1(forecast_code)
        api_daily == IF DictGet(ext_weather_arg, "available", FALSE)
                     THEN DictGet(ext_weather_arg, "daily", <<>>) ELSE <<>>
        days12 ==
            <<SagerDay(0, condition_p1,
                       DictGet(PRECIPITATION_PROBABILITY, condition_p1, 15),
                       0, api_daily, base_temp, t),
              SagerDay(1, ConditionP2(forecast_code),
                       PrecipP2(forecast_code) \div 10,
                       TempChange(forecast_code), api_daily, base_temp, t)>>
    IN  IF Len(api_daily) >= 3
        THEN days12
             \o <<BlendedDay3(forecast_code, api_daily[3], base_temp, t)>>
             \o [k \in 1..(MinOf(Len(api_daily), 7) - 3) |->
                    ExternalDay(api_daily[k + 3], k + 2, base_temp, t)]
        ELSE Append(days12, SagerDay3(forecast_code, base_temp, t))

\* ---- _generate_daily_forecast(sager_result, ext_weather) ----

\* the longest external daily list
MaxDailyEntries == 8

\* an entry as _parse_daily builds it, for day i: every value, no value at
\* all, or a weather code and a maximum temperature only
DailyEntry(i, kind) ==
    [datetime |-> DateTime(24 * (i - 1), 0, ""),
     condition |-> IF kind = "full" THEN SomeStr("rainy") ELSE NoneStr,
     weather_code |-> IF kind = "code" THEN Some(3) ELSE None,
     temperature_max |-> IF kind = "bare" THEN None ELSE Some(2034 + 100 * i),
     temperature_min |-> IF kind = "full" THEN Some(1012 + 100 * i) ELSE None,
     precipitation_sum |-> IF kind = "full" THEN Some(126) ELSE None,
     precipitation_probability_max |-> IF kind = "full" THEN Some(60) ELSE None,
     wind_speed_max |-> IF kind = "full" THEN Some(1238) ELSE None,
     wind_direction_dominant |-> IF kind = "full" THEN Some(200) ELSE None,
     cloud_cover_mean |-> None, uv_index_max |-> None]

DailyKinds == {"full", "bare", "code"}

\* lists of one kind of entry, with at most one entry of another kind
ExtDailyLists ==
    {[i \in 1..n |-> DailyEntry(i, IF i = odd THEN k2 ELSE k1)] :
        n \in 0..MaxDailyEntries, odd \in 1..MaxDailyEntries,
        k1 \in DailyKinds, k2 \in DailyKinds}

\* the ext_weather argument: the empty dict of a result without the key, or
\* the dict with its availability flag and daily list
ExtWeatherArgs ==
    {<<>>} \cup {[available |-> a, hourly |-> <<>>, daily |-> daily] :
                    a \in BOOLEAN, daily \in ExtDailyLists}

InitDaily ==
    /\ Constructed
    /\ hass = NoStates
    /\ open_meteo_data = NoOpenMeteoData
    /\ \E forecast_code \in DOMAIN FORECAST_CONDITIONS,
          arg \in ExtWeatherArgs, base_temp \in {1500, 1834} :
          call = [fn |-> "_generate_daily_forecast",
                  sager_result |-> [forecast_code |-> forecast_code],
                  ext_weather |-> arg, base_temp |-> base_temp,
                  done |-> FALSE, ret |-> <<>>]

call_generate_daily_forecast ==
    /\ call.fn = "_generate_daily_forecast"
    /\ Return(_generate_daily_forecast(call.sager_result, call.ext_weather,
                                       call.base_temp, now))

NextDaily == call_generate_daily_forecast

SpecDaily == InitDaily /\ [][NextDaily]_vars

DailyCallDone == call.fn = "_generate_daily_forecast" /\ call.done

\* the daily list the external source supplies: none when the dict has no
\* list or is not available
SuppliedDaily ==
    IF "available" \in DOMAIN call.ext_weather /\ call.ext_weather.available
    THEN call.ext_weather.daily ELSE <<>>

\* between 3 and 7 entries; entries 1 and 2 have the period-1 and period-2
\* conditions; with no external day the result is the three days of the
\* algorithm; entry k of 4..7 exists exactly when the source supplies day k
DailyStructure ==
    /\ Len(call.ret) \in 3..7
    /\ call.ret[1].condition = SomeStr(ConditionP1(call.sager_result.forecast_code))
    /\ call.ret[2].condition = SomeStr(ConditionP2(call.sager_result.forecast_code))
    /\ Len(SuppliedDaily) = 0 =>
          /\ Len(call.ret) = 3
          /\ call.ret[1].native_temperature = Round1(call.base_temp)
          /\ call.ret[2].native_temperature =
                Round1(call.base_temp + TempChange(call.sager_result.forecast_code))
          /\ call.ret[3] = SagerDay3(call.sager_result.forecast_code,
                                     call.base_temp, now)
    /\ \A k \in 4..7 : k <= Len(call.ret) <=> k <= Len(SuppliedDaily)

Carried(value, rounded, default) ==
    IF ~value.some THEN default
    ELSE IF rounded THEN Round1(value.v) ELSE value.v

-----------------------------------------------------------------------------
(* Setup of a config entry (__init__.py).  `call` holds the entry: its
   state as Home Assistant's ConfigEntry.async_setup sets it (LOADED when
   async_setup_entry returns True, SETUP_RETRY when it raises
   ConfigEntryNotReady, SETUP_ERROR when it raises anything else or returns
   False), whether hass.is_running, the listener for
   EVENT_HOMEASSISTANT_STARTED, and how the refresh inside
   async_setup_entry went. *)

\* coordinator.async_refresh() on a coordinator c = [data, last_fetch,
\* failures, result]: DataUpdateCoordinator catches UpdateFailed and every
\* other exception of _async_update_data, clears last_update_success and
\* returns; nothing is raised to the caller
Refreshed(c, cycle) ==
    [raised |-> FALSE, fs |-> cycle.fs, did |-> cycle.did,
     success |-> ~cycle.failed,
     result |-> IF cycle.failed THEN c.result ELSE cycle.result]

\* _async_update_data of coordinator c
UpdateOf(c, outcome, response) ==
    UpdateCycle(config_data, hass, latitude,
                [data |-> c.data, last_fetch |-> c.last_fetch,
                 failures |-> c.failures],
                now, outcome, response)

\* coordinator = SagerWeathercasterCoordinator(hass, entry)
NewCoordinator ==
    [data |-> NoOpenMeteoData, last_fetch |-> None, failures |-> 0,
     result |-> NoData]

\* the coordinator entry.runtime_data holds
RuntimeData ==
    [data |-> open_meteo_data, last_fetch |-> open_meteo_last_fetch,
     failures |-> open_meteo_failures, result |-> data]

\* the coordinator after a refresh r
SetCoordinator(r) ==
    /\ open_meteo_data' = r.fs.data
    /\ open_meteo_last_fetch' = r.fs.last_fetch
    /\ open_meteo_failures' = r.fs.failures
    /\ fetch_outcome' = r.did
    /\ last_update_success' = r.success
    /\ data' = r.result
    /\ UNCHANGED <<latitude, config_data, hass, now>>

InitSetup ==
    /\ latitude \in Latitudes
    /\ config_data \in Configs
    /\ hass \in HassStates(config_data)
    /\ open_meteo_data = NoOpenMeteoData
    /\ open_meteo_last_fetch = None
    /\ open_meteo_failures = 0
    /\ last_update_success = TRUE
    /\ data = NoData
    /\ now = 0
    /\ fetch_outcome = "none"
    /\ \E is_running \in BOOLEAN :
          call = [fn |-> "async_setup_entry", state |-> "NOT_LOADED",
                  is_running |-> is_running, listener |-> "none",
                  first_refresh |-> "none", platforms |-> FALSE]

\* hass.config_entries.async_setup(entry_id) running async_setup_entry
async_setup_entry ==
    /\ call.fn = "async_setup_entry"
    /\ call.state = "NOT_LOADED"
    /\ IF call.is_running
       THEN \E outcome \in FETCH_OUTCOMES, response \in Responses :
              \E cycle \in {UpdateOf(NewCoordinator, outcome, response)} :
              \E r \in {Refreshed(NewCoordinator, cycle)} :
                 /\ SetCoordinator(r)
                 /\ call' = [call EXCEPT
                       !.state = IF r.raised THEN "SETUP_RETRY" ELSE "LOADED",
                       !.first_refresh = IF r.success THEN "ok" ELSE "failed",
                       !.platforms = ~r.raised]
       ELSE /\ open_meteo_data' = NewCoordinator.data
            /\ open_meteo_last_fetch' = NewCoordinator.last_fetch
            /\ open_meteo_failures' = NewCoordinator.failures
            /\ data' = NewCoordinator.result
            /\ last_update_success' = TRUE
            /\ fetch_outcome' = "none"
            /\ UNCHANGED <<latitude, config_data, hass, now>>
            /\ call' = [call EXCEPT !.state = "LOADED",
                                    !.listener = "pending",
                                    !.first_refresh = "deferred",
                                    !.platforms = TRUE]

\* EVENT_HOMEASSISTANT_STARTED fires the listener, which removes itself
_refresh_on_started ==
    /\ call.fn = "async_setup_entry"
    /\ call.listener = "pending"
    /\ \E outcome \in FETCH_OUTCOMES, response \in Responses :
          \E cycle \in {UpdateOf(RuntimeData, outcome, response)} :
          \E r \in {Refreshed(RuntimeData, cycle)} :
             SetCoordinator(r)
    /\ call' = [call EXCEPT !.listener = "fired", !.is_running = TRUE]

\* async_unload_entry, with the callbacks of entry.async_on_unload:
\* _cancel_if_pending cancels a listener that has not fired
async_unload_entry ==
    /\ call.fn = "async_setup_entry"
    /\ call.state = "LOADED"
    /\ call' = [call EXCEPT !.state = "NOT_LOADED", !.platforms = FALSE,
                            !.listener = IF @ = "pending" THEN "cancelled" ELSE @]
    /\ UNCHANGED coordinator_vars

NextSetup == async_setup_entry \/ _refresh_on_started \/ async_unload_entry

SpecSetup == InitSetup /\ [][NextSetup]_vars

\* C15: when the data update fails during async_setup_entry, the entry does
\* not reach LOADED: setup is not ready and the entry is in SETUP_RETRY.
C15_FailedFirstRefreshRetries ==
    (call.fn = "async_setup_entry" /\ call.first_refresh = "failed"
        /\ call.state # "NOT_LOADED")
    => call.state = "SETUP_RETRY" /\ ~call.platforms


-----------------------------------------------------------------------------
(* The config flow (config_flow.py).  `call` holds Home Assistant's side:
   the config entries of the domain, each with its unique_id and data, and
   the flow in progress with the result of its last step.  `hass` holds the
   states of the sensors the user can select.  A unique_id
   f"{pressure}_{wind}" is the pair: entity ids have one dot and no dot in
   the object id, so the text determines the pair. *)

\* user_input.get(key)
Selected(user_input, key) == key \in DOMAIN user_input

_validate_nothing(states, user_input) == <<>>

\* _validate_sensor_units(hass, user_input): field_key -> error_key
_validate_sensor_units(states, user_input) ==
    LET Bad(key, units) ==
            /\ Selected(user_input, key)
            /\ states[user_input[key]].k # "absent"
            /\ states[user_input[key]].unit # ""
            /\ states[user_input[key]].unit \notin units
    IN  [key \in {k \in {CONF_PRESSURE_ENTITY} :
                     Bad(k, {"hPa", "mbar"})}
                 \cup {k \in {CONF_CLOUD_COVER_ENTITY} :
                     Bad(k, {"%", "lx", "W/m²", "W/m2"})} |->
            IF key = CONF_PRESSURE_ENTITY THEN "invalid_pressure_unit"
            ELSE "invalid_cloud_unit"]

\* {**a, **b}
DictMerge(a, b) == b @@ a

\* self.async_show_form(step_id=..., errors=errors)
ShowForm(step_id, errors) ==
    [type |-> "form", step_id |-> step_id, errors |-> errors, reason |-> ""]

CreateEntry == [type |-> "create_entry", step_id |-> "", errors |-> <<>>, reason |-> ""]

Abort(reason) == [type |-> "abort", step_id |-> "", errors |-> <<>>, reason |-> reason]

NoFlow == [step |-> "none", required_data |-> <<>>, entry |-> 0]

\* the unique ids of the entries: _abort_if_unique_id_configured looks here
UniqueIds(entries) == {entries[i].unique_id : i \in DOMAIN entries}

\* the most config entries
MaxEntries == 2

FlowSensors ==
    {"sensor.pressure", "sensor.pressure_2", "sensor.wind", "sensor.cloud"}

\* step 1 input: the two required selectors
RequiredInputs ==
    {[pressure_entity |-> p, wind_dir_entity |-> "sensor.wind"] :
        p \in {"sensor.pressure", "sensor.pressure_2"}}

\* step 2 input: every selector is optional
OptionalInputs == {<<>>, [cloud_cover_entity |-> "sensor.cloud"]}

ReconfigureInputs == {DictMerge(r, o) : r \in RequiredInputs, o \in OptionalInputs}

\* unit_of_measurement of a sensor selected as pressure sensor: the two
\* the flow accepts, another one, none, and a sensor with no state yet
PressureSensorStates ==
    {Raw("num", 101300, "hPa"), Raw("num", 101300, "mbar"),
     Raw("num", 10130000, "Pa"), Raw("num", 101300, ""), Absent}

CloudSensorStates ==
    {Raw("num", 50, "%"), Raw("num", 50000, "lx"), Raw("num", 500, "W/m²"),
     Raw("num", 500, "W/m2"), Raw("num", 50, "klux"), Raw("num", 50, ""),
     Absent}

InitFlow ==
    /\ Constructed
    /\ open_meteo_data = NoOpenMeteoData
    /\ latitude = 450
    /\ \E p \in PressureSensorStates, c \in CloudSensorStates :
          hass = [e \in FlowSensors |->
                     IF e = "sensor.pressure" THEN p
                     ELSE IF e = "sensor.pressure_2" THEN Raw("num", 101300, "hPa")
                     ELSE IF e = "sensor.cloud" THEN c
                     ELSE Raw("num", 270, "°")]
    /\ call = [fn |-> "config_flow", entries |-> <<>>, flow |-> NoFlow,
               result |-> Abort(""), user_input |-> <<>>]

FlowStep(entries, flow, result, user_input) ==
    /\ call' = [call EXCEPT !.entries = entries, !.flow = flow,
                            !.result = result, !.user_input = user_input]
    /\ UNCHANGED coordinator_vars

\* flow.async_init(DOMAIN, context={"source": SOURCE_USER}):
\* async_step_user(None)
async_init_user ==
    /\ call.fn = "config_flow"
    /\ call.flow.step = "none"
    /\ FlowStep(call.entries, [NoFlow EXCEPT !.step = "user"],
                ShowForm("user", <<>>), <<>>)

\* async_step_user(user_input)
async_step_user ==
    /\ call.fn = "config_flow"
    /\ call.flow.step = "user"
    /\ \E user_input \in RequiredInputs :
        \E errors \in {_validate_sensor_units(hass, user_input)} :
          IF errors = <<>>
          THEN FlowStep(call.entries,
                        [call.flow EXCEPT !.step = "optional_sensors",
                                          !.required_data = user_input],
                        ShowForm("optional_sensors", <<>>), user_input)
          ELSE FlowStep(call.entries, call.flow, ShowForm("user", errors),
                        user_input)

\* async_step_optional_sensors(user_input)
async_step_optional_sensors ==
    /\ call.fn = "config_flow"
    /\ call.flow.step = "optional_sensors"
    /\ \E user_input \in OptionalInputs :
        \E errors \in {_validate_sensor_units(hass, user_input)},
           merged \in {DictMerge(call.flow.required_data, user_input)} :
          IF errors # <<>>
          THEN FlowStep(call.entries, call.flow,
                        ShowForm("optional_sensors", errors), user_input)
          ELSE IF <<merged[CONF_PRESSURE_ENTITY], merged[CONF_WIND_DIR_ENTITY]>>
                      \in UniqueIds(call.entries)
          THEN FlowStep(call.entries, NoFlow, Abort("already_configured"),
                        user_input)
          ELSE /\ Len(call.entries) < MaxEntries
               /\ FlowStep(Append(call.entries,
                               [unique_id |-> <<merged[CONF_PRESSURE_ENTITY],
                                                merged[CONF_WIND_DIR_ENTITY]>>,
                                data |-> merged]),
                           NoFlow, CreateEntry, user_input)

\* flow.async_init with source reconfigure on an entry:
\* async_step_reconfigure(None)
async_init_reconfigure ==
    /\ call.fn = "config_flow"
    /\ call.flow.step = "none"
    /\ \E entry \in DOMAIN call.entries :
          FlowStep(call.entries,
                   [NoFlow EXCEPT !.step = "reconfigure", !.entry = entry],
                   ShowForm("reconfigure", <<>>), <<>>)

\* async_step_reconfigure(user_input)
async_step_reconfigure ==
    /\ call.fn = "config_flow"
    /\ call.flow.step = "reconfigure"
    /\ \E user_input \in ReconfigureInputs :
        \E errors \in {_validate_sensor_units(hass, user_input)} :
          IF errors = <<>>
          THEN FlowStep([call.entries EXCEPT ![call.flow.entry].data = user_input],
                        NoFlow, Abort("reconfigure_successful"), user_input)
          ELSE FlowStep(call.entries, call.flow,
                        ShowForm("reconfigure", errors), user_input)

NextFlow ==
    \/ async_init_user
    \/ async_step_user
    \/ async_step_optional_sensors
    \/ async_init_reconfigure
    \/ async_step_reconfigure

SpecFlow == InitFlow /\ [][NextFlow]_vars

\* the sensor an input selects under key has a state with a unit that is
\* not one of units
WrongUnit(user_input, key, units) ==
    /\ key \in DOMAIN user_input
    /\ hass[user_input[key]] # Absent
    /\ hass[user_input[key]].unit \notin units \cup {""}

\* the errors the claim expects for an input
ExpectedErrors(user_input) ==
    [key \in {k \in {CONF_PRESSURE_ENTITY, CONF_CLOUD_COVER_ENTITY} :
                 WrongUnit(user_input, k,
                           IF k = CONF_PRESSURE_ENTITY THEN {"hPa", "mbar"}
                           ELSE {"%", "lx", "W/m²", "W/m2"})} |->
        IF key = CONF_PRESSURE_ENTITY THEN "invalid_pressure_unit"
        ELSE "invalid_cloud_unit"]

\* a step on an open form whose input selects a sensor with a wrong unit:
\* the same form is shown with the errors, and the flow and the entries
\* stay as they were
RejectedStep ==
    (call.flow.step # "none" /\ ExpectedErrors(call'.user_input) # <<>>)
    => /\ call'.result = ShowForm(call.flow.step, ExpectedErrors(call'.user_input))
       /\ call'.flow = call.flow
       /\ call'.entries = call.entries

\* a step on an open form whose input selects no sensor with a wrong unit
\* (no state and no unit pass) shows no error
AcceptedStep ==
    (call.flow.step # "none" /\ ExpectedErrors(call'.user_input) = <<>>)
    => call'.result.errors = <<>>

\* an entry is created only by the second step of a user flow, whose first
\* step was accepted, and holds the data of both steps
CreatedStep ==
    Len(call'.entries) > Len(call.entries)
    => /\ call.flow.step = "optional_sensors"
       /\ call'.result.type = "create_entry"
       /\ ExpectedErrors(call.flow.required_data) = <<>>
       /\ ExpectedErrors(call'.user_input) = <<>>
       /\ call'.entries[Len(call'.entries)].data =
             DictMerge(call.flow.required_data, call'.user_input)
       /\ \A i \in DOMAIN call.entries : call'.entries[i] = call.entries[i]

\* C16: in every step, a pressure sensor with a unit other than hPa or mbar
\* or a cloud-cover sensor with a unit other than %, lx, W/m² or W/m2 shows
\* the same step again with its error and leaves the entries as they were;
\* no state or no unit passes; an entry is created only after both steps
\* passed, with the merged data.
C16_UnitValidation == [][RejectedStep /\ AcceptedStep /\ CreatedStep]_vars

\* a reconfigure step shown again with the error of the pressure sensor,
\* the entry unchanged
C16_Witness ==
    /\ call.fn = "config_flow"
    /\ call.result = ShowForm("reconfigure",
                              [pressure_entity |-> "invalid_pressure_unit"])
    /\ call.flow.step = "reconfigure"
    /\ call.user_input[CONF_PRESSURE_ENTITY] = "sensor.pressure"
    /\ hass["sensor.pressure"].unit = "Pa"
    /\ Len(call.entries) = 1
    /\ call.entries[1].data =
          [pressure_entity |-> "sensor.pressure_2",
           wind_dir_entity |-> "sensor.wind",
           cloud_cover_entity |-> "sensor.cloud"]

\* the pair an entry is wired to
WiredPair(entry) ==
    <<entry.data[CONF_PRESSURE_ENTITY], entry.data[CONF_WIND_DIR_ENTITY]>>

\* C17: no two config entries are wired to the same pressure and
\* wind-direction pair.
C17_NoDuplicatePairs ==
    call.fn = "config_flow" =>
        \A i, j \in DOMAIN call.entries :
            i # j => WiredPair(call.entries[i]) # WiredPair(call.entries[j])

-----------------------------------------------------------------------------
(* The forecast sensor (sensor.py) *)

\* SagerSensor keeps its own state: it polls (should_poll), reads the
\* entities itself and computes its own forecast; it holds no coordinator.
\* Time is in minutes.  The readings are told apart by the lookup key
\* _sager_algorithm builds from them; FORECASTS, WIND_DIRS and
\* WIND_VELOCITIES are imported from const.py, so the text is kept as the
\* three table positions it is built from.

CACHE_DURATION_MINUTES == 5

MaxSensorClock == 11

\* rows of _get_complete_forecast_map
SensorForecastMap ==
    [k \in {"1311", "1315", "1351"} |->
        IF k = "1311" THEN <<"F0", "W7">>
        ELSE IF k = "1315" THEN <<"F18", "W7">>
        ELSE <<"F8", "W0">>]

\* keys of the readings; "2511" is not in the table
LookupKeys == DOMAIN SensorForecastMap \cup {"2511"}

\* int(f_code[1:]), int(w_code[1:])
CodeIndex(code) ==
    CASE code = "F0" -> 0 [] code = "F3" -> 3 [] code = "F8" -> 8
      [] code = "F18" -> 18 [] code = "W0" -> 0 [] code = "W7" -> 7

ForecastText(forecast_idx, wind_index, wind_idx) ==
    <<"FORECASTS", forecast_idx, "WIND_DIRS", wind_index,
      "WIND_VELOCITIES", wind_idx>>

\* _sager_algorithm, from the lookup on
SensorForecast(lookup_key, wind_index) ==
    LET found == lookup_key \in DOMAIN SensorForecastMap
        codes == IF found THEN SensorForecastMap[lookup_key] ELSE <<"F3", "W7">>
    IN  [f_code |-> codes[1],
         text |-> ForecastText(CodeIndex(codes[1]), wind_index, CodeIndex(codes[2])),
         confidence |-> IF found THEN 95 ELSE 60]

SensorAttrs(forecast, t) ==
    [pressure_level |-> "hpa_level", wind_dir |-> "wind_dir",
     wind_trend |-> "wind_trend", cloud_level |-> "cloud_level",
     pressure_trend |-> "pressure_trend",
     confidence |-> forecast.confidence, raw_data |-> "data",
     calculation_time_ms |-> 0, cache_hit_rate |-> "rate",
     last_update |-> t]

\* SagerSensor.__init__, and the module's cache globals
InitSensor ==
    /\ Constructed
    /\ open_meteo_data = NoOpenMeteoData
    /\ latitude = 450
    /\ hass = NoStates
    /\ \E update_interval \in {1, 10} :
          call = [fn |-> "SagerSensor",
                  _state |-> <<"Initializing...">>,
                  _attrs |-> <<>>,
                  _update_interval |-> update_interval,
                  _last_update |-> None,
                  _FORECAST_CACHE |-> {},
                  _LAST_CALCULATION |-> None,
                  t |-> 0,
                  result |-> None,
                  failed |-> FALSE]

SensorFaults == {"none", "_get_sensor_data", "_sager_algorithm", "unexpected"}

\* the error branches: the state becomes the message, the attributes keep
\* what they held and gain "error"
SensorError(message, t) ==
    call' = [call EXCEPT !._state = <<message>>,
                         !._attrs = DictSet(call._attrs, "error", "str(e)"),
                         !.t = t, !.failed = TRUE]

\* SagerSensor.update, called by the polling of the entity platform dt
\* minutes after the previous call
SagerSensor_update ==
    /\ call.fn = "SagerSensor"
    /\ \E dt \in {1, 4, 6}, lookup_key \in LookupKeys, wind_index \in {0, 7},
          fault \in SensorFaults :
          LET t == call.t + dt
              cached == /\ <<lookup_key, wind_index>> \in call._FORECAST_CACHE
                        /\ call._LAST_CALCULATION.some
                        /\ t - call._LAST_CALCULATION.v < CACHE_DURATION_MINUTES
              forecast == SensorForecast(lookup_key, wind_index)
          IN  /\ t <= MaxSensorClock
              /\ IF call._last_update.some
                    /\ t - call._last_update.v < call._update_interval
                 THEN call' = [call EXCEPT !.t = t]
                 ELSE IF fault = "unexpected"
                 THEN SensorError("Error: Unexpected error", t)
                 ELSE IF fault = "_get_sensor_data"
                 THEN SensorError("Error: Sensor data unavailable", t)
                 ELSE IF ~cached /\ fault = "_sager_algorithm"
                 THEN SensorError("Error: Calculation failed", t)
                 ELSE call' = [call EXCEPT
                         !._state = forecast.text,
                         !._attrs = SensorAttrs(forecast, t),
                         !._last_update = Some(t),
                         !._FORECAST_CACHE =
                             IF cached THEN @ ELSE @ \cup {<<lookup_key, wind_index>>},
                         !._LAST_CALCULATION = IF cached THEN @ ELSE Some(t),
                         !.t = t,
                         !.result = Some(forecast),
                         !.failed = FALSE]
    /\ UNCHANGED coordinator_vars

NextSensor == SagerSensor_update

SpecSensor == InitSensor /\ [][NextSensor]_vars

native_value == call._state

extra_state_attributes == call._attrs

\* C18: the forecast sensor's native_value is None and its
\* extra_state_attributes are empty whenever no successful result is
\* available (before the first result and after a failed update), and
\* otherwise native_value is the forecast code of the latest result.
C18_NoStaleOrPlaceholder ==
    call.fn = "SagerSensor" =>
        IF ~call.result.some \/ call.failed
        THEN native_value = <<>> /\ extra_state_attributes = <<>>
        ELSE native_value = <<call.result.v.f_code>>

-----------------------------------------------------------------------------
(* Sky calibration (the sky-to-cloud-cover model's calibration state) *)

\* The coordinator of the tests carries sky_calibration_factor; the
\* coordinator in coordinator.py has no such field, so the calibration
\* update follows section 4.2, step 5.  Factors are in ten-thousandths.

CALIBRATION_FACTOR_MIN == 4000

CALIBRATION_FACTOR_MAX == 14000

MaxCycles == 4

\* (1 - alpha) * old + alpha * observed_factor with alpha = 0.15, to the
\* nearest ten-thousandth
Ema(old, observed_factor) ==
    LET alpha == 15
    IN  ((Centi - alpha) * old + alpha * observed_factor + Centi \div 2) \div Centi

\* a ground-truth sample qualifies: the sun is at 15 degrees or higher and
\* the external source reports at most 5 % cloud cover
Qualifies(elevation, ground_truth) ==
    /\ ground_truth.some
    /\ elevation >= 15
    /\ ground_truth.v <= 5

CalibrationUpdateUnbounded(old, elevation, ground_truth, observed_factor) ==
    IF Qualifies(elevation, ground_truth)
    THEN Ema(old, observed_factor)
    ELSE old

\* the calibration update of one cycle: the new sky_calibration_factor
CalibrationUpdate(old, elevation, ground_truth, observed_factor) ==
    IF /\ Qualifies(elevation, ground_truth)
       /\ observed_factor >= CALIBRATION_FACTOR_MIN
       /\ observed_factor <= CALIBRATION_FACTOR_MAX
    THEN Ema(old, observed_factor)
    ELSE old

\* observed_factor = measured / clear_sky_model: at the bounds, just outside
\* them, far outside them, and inside
ObservedFactors == {0, 3999, 4000, 10000, 14000, 14001, 30000}

InitCalibration ==
    /\ Constructed
    /\ open_meteo_data = NoOpenMeteoData
    /\ latitude = 450
    /\ hass = NoStates
    /\ \E seed \in {CALIBRATION_FACTOR_MIN, 10000, CALIBRATION_FACTOR_MAX} :
          call = [fn |-> "calibration",
                  sky_calibration_factor |-> seed,
                  stored |-> seed,
                  cycles |-> 0,
                  accepted |-> {},
                  rejected |-> {}]

\* one refresh cycle of the sky model: the calibration update, then the
\* save of a dirty calibration state at the end of the cycle
CalibrationCycle ==
    /\ call.fn = "calibration"
    /\ call.cycles < MaxCycles
    /\ \E elevation \in {14, 15, 40}, ground_truth \in {None, Some(5), Some(6)},
          observed_factor \in ObservedFactors :
          LET updated == CalibrationUpdate(call.sky_calibration_factor, elevation,
                                           ground_truth, observed_factor)
              dirty == updated # call.sky_calibration_factor
              in_bound == /\ observed_factor >= CALIBRATION_FACTOR_MIN
                          /\ observed_factor <= CALIBRATION_FACTOR_MAX
              qualifies == Qualifies(elevation, ground_truth)
          IN  call' = [call EXCEPT
                  !.sky_calibration_factor = updated,
                  !.stored = IF dirty THEN updated ELSE @,
                  !.cycles = @ + 1,
                  !.accepted = IF qualifies /\ in_bound
                               THEN @ \cup {observed_factor} ELSE @,
                  !.rejected = IF qualifies /\ ~in_bound
                               THEN @ \cup {observed_factor} ELSE @]
    /\ UNCHANGED coordinator_vars

NextCalibration == CalibrationCycle

SpecCalibration == InitCalibration /\ [][NextCalibration]_vars

\* C19: starting from a sky calibration factor in [0.4, 1.4], after any
\* number of refresh cycles and any sequence of observed factors (at 0.4,
\* at 1.4 and outside the bound, which are rejected), the sky calibration
\* factor stays in [0.4, 1.4].
C19_CalibrationBound ==
    call.fn = "calibration" =>
        /\ call.sky_calibration_factor >= CALIBRATION_FACTOR_MIN
        /\ call.sky_calibration_factor <= CALIBRATION_FACTOR_MAX

\* observed factors at both bounds were taken, observed factors outside the
\* bound were rejected, and the factor has moved to 1.4
C19_Witness ==
    /\ call.fn = "calibration"
    /\ {CALIBRATION_FACTOR_MIN, CALIBRATION_FACTOR_MAX} \subseteq call.accepted
    /\ {3999, 14001} \subseteq call.rejected
    /\ call.sky_calibration_factor # 10000
    /\ call.sky_calibration_factor > CALIBRATION_FACTOR_MIN

-----------------------------------------------------------------------------
(* _zambretti_forecast over the whole range of its inputs *)

\* every whole hPa the range check of _get_sensor_data lets through
ZambrettiPressures == {hpa * Centi : hpa \in PRESSURE_MIN..PRESSURE_MAX}

\* the ends of the range, and the changes around the two trend thresholds
ZambrettiChanges ==
    {PRESSURE_CHANGE_MIN * Centi, -(2 * ZAMBRETTI_TREND_THRESHOLD) - 1,
     -(2 * ZAMBRETTI_TREND_THRESHOLD), 0, 2 * ZAMBRETTI_TREND_THRESHOLD,
     2 * ZAMBRETTI_TREND_THRESHOLD + 1, PRESSURE_CHANGE_MAX * Centi}

\* the ends of the range, and the directions around each sector boundary
ZambrettiWinds ==
    {WIND_DIR_MIN, 44, 45, 134, 135, 180, 225, 226, 315, 316, WIND_DIR_MAX}

InitZambretti ==
    /\ Constructed
    /\ latitude = 450
    /\ hass = NoStates
    /\ open_meteo_data = NoOpenMeteoData
    /\ \E pressure \in ZambrettiPressures, pressure_change \in ZambrettiChanges,
          wind_direction \in ZambrettiWinds :
          call = [fn |-> "_zambretti_forecast",
                  sensor_data |-> [pressure |-> pressure,
                                   pressure_change |-> pressure_change,
                                   wind_direction |-> wind_direction],
                  done |-> FALSE, ret |-> <<>>]

call_zambretti_forecast ==
    /\ call.fn = "_zambretti_forecast"
    /\ Return(_zambretti_forecast(call.sensor_data))

NextZambretti == call_zambretti_forecast

SpecZambretti == InitZambretti /\ [][NextZambretti]_vars

\* the sub-range of each trend
ZambrettiSubRange(trend) ==
    IF trend = "falling" THEN 1..9
    ELSE IF trend = "steady" THEN 10..19
    ELSE 20..32

\* C20: for every pressure in [900, 1100], pressure change in [-50, 50] and
\* wind direction in [0, 360], the index _zambretti_forecast computes lies
\* in the sub-range of the selected trend (falling 1..9, steady 10..19,
\* rising 20..32), the lookup hits and the "unknown" fallback is not returned.
C20_ZambrettiIndexInTable ==
    (call.fn = "_zambretti_forecast" /\ call.done) =>
        /\ call.ret.index \in ZambrettiSubRange(call.ret.trend)
        /\ call.ret.index \in DOMAIN ZAMBRETTI_FORECASTS[call.ret.trend]
        /\ call.ret.zambretti_key # "unknown"
        /\ <<call.ret.zambretti_key, call.ret.condition>> =
               ZAMBRETTI_FORECASTS[call.ret.trend][call.ret.index]

\* a southerly wind at the lowest pressure under a falling trend: the
\* clamped index is already the last of its sub-range and stays there
C20_Witness ==
    /\ call.fn = "_zambretti_forecast"
    /\ call.done
    /\ call.sensor_data.pressure = PRESSURE_MIN * Centi
    /\ call.sensor_data.wind_direction = 180
    /\ call.ret.trend = "falling"
    /\ call.ret.index = 9

-----------------------------------------------------------------------------
(* _cross_validate applied again to its own result *)

\* forecasts as _sager_algorithm hands them over: one code of each severity,
\* and confidences below, between and above the floors and the cap
CrossForecasts ==
    {[forecast_code |-> code, confidence |-> confidence] :
        code \in {"a", "d", "g", "j", "g2"},
        confidence \in {25, 35, 40, 45, 80, 85, 90, 99}}

ZambrettiResults ==
    {[zambretti_key |-> "key", condition |-> condition, trend |-> "steady",
      index |-> 10] :
        condition \in {"sunny", "partlycloudy", "rainy", "pouring"}}

InitCross ==
    /\ Constructed
    /\ latitude = 450
    /\ hass = NoStates
    /\ open_meteo_data = NoOpenMeteoData
    /\ \E forecast \in CrossForecasts, zambretti \in ZambrettiResults :
          call = [fn |-> "_cross_validate", forecast |-> forecast,
                  zambretti |-> zambretti, applied |-> 0,
                  first |-> <<>>, second |-> <<>>]

\* forecast = self._cross_validate(forecast, zambretti)
call_cross_validate ==
    /\ call.fn = "_cross_validate"
    /\ call.applied = 0
    /\ call' = [call EXCEPT !.applied = 1,
                   !.first = _cross_validate(call.forecast, call.zambretti)]
    /\ UNCHANGED coordinator_vars

\* the same call on the forecast the first call returned
call_cross_validate_again ==
    /\ call.fn = "_cross_validate"
    /\ call.applied = 1
    /\ call' = [call EXCEPT !.applied = 2,
                   !.second = _cross_validate(call.first, call.zambretti)]
    /\ UNCHANGED coordinator_vars

NextCross == call_cross_validate \/ call_cross_validate_again

SpecCross == InitCross /\ [][NextCross]_vars

CrossAppliedTwice == call.fn = "_cross_validate" /\ call.applied = 2

-----------------------------------------------------------------------------
(* The time gate of the external fetch *)

\* a refresh cycle runs (the clock stands still while it does)
RefreshStep == now' = now

\* the last successful fetch is less than 30 minutes old
WithinFetchInterval ==
    /\ open_meteo_last_fetch.some
    /\ now - open_meteo_last_fetch.v < OPEN_METEO_UPDATE_INTERVAL_MINUTES

\* C22: a refresh cycle that runs less than 30 minutes after the last
\* successful external fetch performs no request and leaves the cached
\* data, the last-fetch time and the failure counter unchanged, however
\* many such cycles run one after another.
C22_TimeGatedFetch ==
    [][(RefreshStep /\ WithinFetchInterval) =>
        /\ fetch_outcome' \notin FETCH_OUTCOMES
        /\ open_meteo_data' = open_meteo_data
        /\ open_meteo_last_fetch' = open_meteo_last_fetch
        /\ open_meteo_failures' = open_meteo_failures
    ]_vars

\* a cycle 20 minutes after the fetch, the third since: the fetch was skipped
C22_Witness ==
    /\ open_meteo_last_fetch = Some(0)
    /\ now = 2 * UPDATE_INTERVAL_MINUTES
    /\ fetch_outcome = "skipped"
    /\ open_meteo_data.some
    /\ data.some

-----------------------------------------------------------------------------
(* The order of the steps of one refresh cycle *)

\* a refresh cycle that ran to its end and fetched the external forecast
FetchedAndSucceeded ==
    /\ RefreshStep
    /\ fetch_outcome' = "ok"
    /\ last_update_success'

\* the sensor data as it is when gathered after the fetch of the cycle
GatheredAfterFetch(od) ==
    CloudFallback(config_data, _get_sensor_data(config_data, hass, od).data, od)

\* C23: within one refresh cycle the external forecast is fetched before
\* the sensor readings are gathered, so the cloud cover of the cycle uses
\* the external data fetched in that cycle; then both engines run, and the
\* cross-validation runs on their two results.
C23_PipelineOrder ==
    [][FetchedAndSucceeded =>
        /\ data'.sensor_data = GatheredAfterFetch(open_meteo_data')
        /\ data'.zambretti = _zambretti_forecast(data'.sensor_data)
        /\ data'.forecast =
              _cross_validate(_sager_algorithm(data'.sensor_data, latitude),
                              data'.zambretti)
    ]_vars

-----------------------------------------------------------------------------
(* What _async_update_data logs and raises *)

\* `call` holds the log of the latest cycle: how the cycle before it and the
\* latest one ended ("none": there was none), what the latest one raised
\* and logged, and the warnings since the last successful cycle.

WarningOnEveryFailure(success_before, cycle) == cycle.failed

\* _LOGGER.warning("Sager Weathercaster is unavailable: %s", err), in both
\* except branches
UnavailableWarning(success_before, cycle) == cycle.failed /\ success_before

\* _LOGGER.info("Sager Weathercaster is back online")
BackOnlineInfo(success_before, cycle) == ~cycle.failed /\ ~success_before

\* except ValueError and except Exception both raise UpdateFailed
RaisedBy(cycle) == IF cycle.failed THEN "UpdateFailed" ELSE "none"

InitLog ==
    /\ latitude = 450
    /\ config_data \in Configs
    /\ hass \in HassStates(config_data)
    /\ open_meteo_data = NoOpenMeteoData
    /\ open_meteo_last_fetch = None
    /\ open_meteo_failures = 0
    /\ last_update_success = TRUE
    /\ data = NoData
    /\ now = 0
    /\ fetch_outcome = "none"
    /\ call = [fn |-> "log", before |-> "none", latest |-> "none",
               raised |-> "none", warning |-> FALSE, info |-> FALSE,
               warnings_since_success |-> 0]

\* coordinator.async_refresh(), with what _async_update_data logs
async_refresh_logged ==
    /\ call.fn = "log"
    /\ \E outcome \in FETCH_OUTCOMES, response \in Responses :
          \E cycle \in {UpdateOf(RuntimeData, outcome, response)} :
          \E r \in {Refreshed(RuntimeData, cycle)} :
             /\ cycle.fs.failures <= MaxFailures
             /\ SetCoordinator(r)
             /\ \E warning \in {UnavailableWarning(last_update_success, cycle)} :
                   call' = [call EXCEPT
                      !.before = call.latest,
                      !.latest = IF cycle.failed THEN "failed" ELSE "ok",
                      !.raised = RaisedBy(cycle),
                      !.warning = warning,
                      !.info = BackOnlineInfo(last_update_success, cycle),
                      !.warnings_since_success =
                          IF ~cycle.failed THEN 0
                          ELSE IF warning THEN @ + 1 ELSE @]

NextLog == async_refresh_logged \/ Tick

SpecLog == InitLog /\ [][NextLog]_vars

\* C24 as stated: a failed cycle raises UpdateFailed and logs a warning
\* exactly when the previous cycle had succeeded; a successful cycle logs
\* "back online" exactly when the previous cycle had failed.
C24_LogsAfterPreviousCycle ==
    call.fn = "log" =>
        /\ call.latest = "failed" =>
              /\ call.raised = "UpdateFailed"
              /\ call.warning <=> call.before = "ok"
        /\ call.latest = "ok" => (call.info <=> call.before = "failed")

\* C24, amended: a failed cycle raises UpdateFailed and logs a warning
\* exactly when the previous cycle had succeeded or there was no previous
\* cycle, so consecutive failures log one warning; a successful cycle
\* raises nothing and logs "back online" exactly when the previous cycle
\* had failed.
C24_LogsOnChange ==
    call.fn = "log" =>
        /\ call.latest = "failed" =>
              /\ call.raised = "UpdateFailed"
              /\ call.warning <=> call.before \in {"ok", "none"}
              /\ ~call.info
              /\ call.warnings_since_success = 1
        /\ call.latest = "ok" =>
              /\ call.raised = "none"
              /\ ~call.warning
              /\ call.info <=> call.before = "failed"
              /\ call.warnings_since_success = 0

\* a second failure in a row, which logged nothing, 20 minutes in
C24_Witness ==
    /\ call.fn = "log"
    /\ call.before = "failed"
    /\ call.latest = "failed"
    /\ ~call.warning
    /\ call.warnings_since_success = 1
    /\ now = 2 * UPDATE_INTERVAL_MINUTES

-----------------------------------------------------------------------------
(* The Sager hourly baseline (weather.py) *)

HOURLY_SLOTS == 48

\* int(precip_p1), int(precip_p2)
PrecipOfSlot(forecast_code, i) ==
    IF i < 24
    THEN DictGet(PRECIPITATION_PROBABILITY, ConditionP1(forecast_code), 15)
    ELSE PrecipP2(forecast_code) \div 10

\* "Day/night condition adjustment": local_hour = slot_dt.hour, and slot_dt
\* counts from dt_util.utcnow()
SlotCondition(forecast_code, i, slot_hour) ==
    LET condition == IF i < 24 THEN ConditionP1(forecast_code)
                     ELSE ConditionP2(forecast_code)
        local_hour == slot_hour % 24
        is_day_slot == 6 <= local_hour /\ local_hour <= 20
    IN  IF condition = "sunny" /\ ~is_day_slot THEN "clear-night" ELSE condition

\* _generate_sager_hourly_forecast(sager_result, sensor_data) at time t
\* (minutes, UTC): the datetime, the condition and the precipitation
\* probability of each slot; slot i of the code is element i + 1
_generate_sager_hourly_forecast(sager_result, t) ==
    LET forecast_code == DictGet(sager_result, "forecast_code", "d")
        start == t \div 60 + 1
    IN  [n \in 1..HOURLY_SLOTS |->
            [datetime |-> DateTime(start + n - 1, 0, "+00:00"),
             condition |-> SomeStr(SlotCondition(forecast_code, n - 1, start + n - 1)),
             precipitation_probability |-> PrecipOfSlot(forecast_code, n - 1)]]

\* hass.config.time_zone as minutes east of UTC: London in winter, Berlin,
\* Kolkata, Los Angeles
TimeZones == {0, 60, 330, -480}

\* dt_util.utcnow(), minutes after a midnight UTC
HourlyCallTimes == {0, 30, 359, 780, 1200, 1395}

InitSagerHourly ==
    /\ Constructed
    /\ latitude = 450
    /\ hass = NoStates
    /\ open_meteo_data = NoOpenMeteoData
    /\ \E code \in DOMAIN FORECAST_CONDITIONS \cup {"zz"}, t \in HourlyCallTimes,
          time_zone \in TimeZones :
          call = [fn |-> "_generate_sager_hourly_forecast",
                  sager_result |-> [forecast_code |-> code],
                  t |-> t, time_zone |-> time_zone,
                  done |-> FALSE, ret |-> <<>>]

call_generate_sager_hourly_forecast ==
    /\ call.fn = "_generate_sager_hourly_forecast"
    /\ Return(_generate_sager_hourly_forecast(call.sager_result, call.t))

NextSagerHourly == call_generate_sager_hourly_forecast

SpecSagerHourly == InitSagerHourly /\ [][NextSagerHourly]_vars

\* the hour of the day at the installation, of an instant in minutes UTC
LocalHourAt(instant, time_zone) == ((instant + time_zone) \div 60) % 24

\* C25: _generate_sager_hourly_forecast returns exactly 48 slots at
\* consecutive hours starting at the next full hour; slots 0..23 carry the
\* period-1 condition of the forecast code and slots 24..47 the period-2
\* evolved condition (the period-1 condition when the code has no
\* evolution entry); "sunny" is replaced by "clear-night" exactly for the
\* slots whose local hour at the installation is outside 6..20.
C25_HourlyBaselineConditions ==
    (call.fn = "_generate_sager_hourly_forecast" /\ call.done) =>
        LET code == call.sager_result.forecast_code
            p1 == DictGet(FORECAST_CONDITIONS, code, "partlycloudy")
            p2 == IF code \in DOMAIN FORECAST_EVOLUTION
                  THEN FORECAST_EVOLUTION[code][1] ELSE p1
        IN  /\ Len(call.ret) = 48
            /\ \A i \in 0..47 :
                  LET slot == call.ret[i + 1]
                      period == IF i < 24 THEN p1 ELSE p2
                      hour == LocalHourAt(Instant(slot.datetime), call.time_zone)
                      night == hour < 6 \/ hour > 20
                  IN  /\ Instant(slot.datetime) = (call.t \div 60 + 1 + i) * 60
                      /\ slot.condition =
                            SomeStr(IF period = "sunny" /\ night
                                    THEN "clear-night" ELSE period)

-----------------------------------------------------------------------------
(* The hourly forecast beyond the Sager window *)

\* dt_util.utcnow() at the call, minutes
ExtendCallTimes == {0, 90}

\* the baseline at time t: none, or BaselineSlots slots from the next full hour
BaselinesAt(t) ==
    {<<>>} \cup
    {[i \in 1..BaselineSlots |-> SagerSlot(t \div 60 + i, condition)] :
        condition \in {"rainy"}}

\* datetimes of external entries: before 01:30, on and around the hours of
\* the baseline, one instant written with another offset, on and around the
\* 168 hours after now, and text that is no datetime
ExtendDateTimes ==
    {DateTime(0, 30, ""), DateTime(2, 0, "+00:00"), DateTime(3, 0, "+01:00"),
     DateTime(3, 0, ""), DateTime(4, 0, ""), DateTime(EXTENDED_HOURS, 0, ""),
     DateTime(EXTENDED_HOURS + 1, 0, ""), DateTime(EXTENDED_HOURS + 2, 30, ""),
     BadDateTime}

ExtendEntries ==
    {HourlyEntry(dt, present, present # {}, condition) :
        dt \in ExtendDateTimes, present \in {{}, DOMAIN HOURLY_VALUES},
        condition \in {SomeStr("sunny"), NoneStr}}

\* external lists in any order
ExtendLists ==
    {<<>>} \cup {<<a>> : a \in ExtendEntries}
    \cup {<<a, b>> : a \in ExtendEntries, b \in ExtendEntries}

InitExtend ==
    /\ latitude = 450
    /\ config_data = {}
    /\ hass = NoStates
    /\ open_meteo_data = NoOpenMeteoData
    /\ open_meteo_last_fetch = None
    /\ open_meteo_failures = 0
    /\ last_update_success = TRUE
    /\ data = NoData
    /\ fetch_outcome = "none"
    /\ now \in ExtendCallTimes
    /\ \E sager_hourly \in BaselinesAt(now), hourly \in ExtendLists :
          call = [fn |-> "extend_hourly",
                  sager_hourly |-> sager_hourly,
                  ext_weather |-> [available |-> TRUE, hourly |-> hourly,
                                   daily |-> <<>>],
                  done |-> FALSE, ret |-> <<>>]

call_extend_hourly ==
    /\ call.fn = "extend_hourly"
    /\ Return(_enrich_hourly_with_ext_weather(call.sager_hourly,
                                              call.ext_weather, now))

NextExtend == call_extend_hourly

SpecExtend == InitExtend /\ [][NextExtend]_vars

\* the slots appended after the baseline
AppendedSlots == (Len(call.sager_hourly) + 1)..Len(call.ret)

\* the keys of the values a slot takes from an entry
EXTENDED_VALUES ==
    HOURLY_VALUES @@
    [precipitation |-> "native_precipitation", uv_index |-> "uv_index",
     apparent_temperature |-> "native_apparent_temperature",
     dew_point |-> "native_dew_point"]

\* the condition of the external source for an entry
ExternalCondition(entry) ==
    LET given == IF entry.condition.some /\ entry.condition.v # ""
                 THEN entry.condition
                 ELSE IF entry.weather_code.some
                 THEN SomeStr(DictGet(WMO_TO_HA_CONDITION, entry.weather_code.v,
                                      "partlycloudy"))
                 ELSE SomeStr("partlycloudy")
    IN  IF given = SomeStr("sunny") /\ ~entry.is_day
        THEN SomeStr("clear-night") ELSE given

\* slot comes from entry: its time is the entry's, strictly after the last
\* Sager slot, not before now and at most 168 hours after now, and it has
\* the entry's condition and, as Taken, each value the entry has
ComesFrom(slot, entry, Taken(_, _)) ==
    /\ entry.datetime.ok
    /\ Instant(slot["datetime"]) = Instant(entry.datetime)
    /\ call.sager_hourly # <<>> =>
          Instant(entry.datetime)
              > Instant(call.sager_hourly[Len(call.sager_hourly)]["datetime"])
    /\ Instant(entry.datetime) >= now
    /\ Instant(entry.datetime) <= now + 168 * 60
    /\ slot["condition"] = ExternalCondition(entry)
    /\ \A field \in DOMAIN EXTENDED_VALUES :
          IF entry[field].some
          THEN /\ EXTENDED_VALUES[field] \in DOMAIN slot
               /\ slot[EXTENDED_VALUES[field]] = Taken(field, entry[field].v)
          ELSE EXTENDED_VALUES[field] \notin DOMAIN slot

ExtensionHolds(Taken(_, _)) ==
    (call.fn = "extend_hourly" /\ call.done) =>
        /\ Len(call.ret) >= Len(call.sager_hourly)
        /\ \A k \in AppendedSlots :
              \E j \in DOMAIN call.ext_weather.hourly :
                  ComesFrom(call.ret[k], call.ext_weather.hourly[j], Taken)

ValueAsGiven(field, v) == v

ValueRounded(field, v) ==
    IF field \in {"temperature", "wind_speed", "precipitation", "uv_index",
                  "apparent_temperature", "dew_point"}
    THEN Round1(v) ELSE v

-----------------------------------------------------------------------------
(* Retrying the external fetch (_async_fetch_open_meteo) *)

\* the fetch attempts that did not succeed, one after another, since the
\* last one that did: the client raised OpenMeteoError ("failed") or let
\* another exception escape ("bad_response")
AttemptsFailedAfter(failed_attempts, did) ==
    IF did = "ok" THEN 0
    ELSE IF did \in {"failed", "bad_response"} THEN failed_attempts + 1
    ELSE failed_attempts

InitRetry ==
    /\ latitude = 450
    /\ config_data \in Configs
    /\ hass \in HassStates(config_data)
    /\ open_meteo_data = NoOpenMeteoData
    /\ open_meteo_last_fetch = None
    /\ open_meteo_failures = 0
    /\ last_update_success = TRUE
    /\ data = NoData
    /\ now = 0
    /\ fetch_outcome = "none"
    /\ call = [fn |-> "retry", failed_attempts |-> 0]

\* coordinator.async_refresh(), the fetch attempts being counted
async_refresh_counted ==
    /\ call.fn = "retry"
    /\ \E outcome \in FETCH_OUTCOMES, response \in Responses :
          \E cycle \in {UpdateOf(RuntimeData, outcome, response)} :
             /\ cycle.fs.failures <= MaxFailures
             /\ call.failed_attempts < MaxFailures + 1
             /\ SetCoordinator(Refreshed(RuntimeData, cycle))
             /\ call' = [call EXCEPT !.failed_attempts =
                                        AttemptsFailedAfter(@, cycle.did)]

NextRetry == async_refresh_counted \/ Tick

SpecRetry == InitRetry /\ [][NextRetry]_vars

\* C27: a failed fetch does not advance the last-fetch time, every
\* following refresh cycle attempts the fetch again until one succeeds, and
\* the failure counter equals the number of consecutive failed attempts
\* since the last success, any success resetting it to 0.
C27_FailuresCountFailedAttempts ==
    call.fn = "retry" =>
        /\ open_meteo_failures = call.failed_attempts
        /\ fetch_outcome \in {"failed", "bad_response"} =>
              ~FetchNotDue(RuntimeData, now)
        /\ fetch_outcome = "ok" => open_meteo_failures = 0

-----------------------------------------------------------------------------
(* The forecast cache of the sensor module (sensor.py) *)

\* SagerSensor._sager_algorithm(data).  The sensor's level functions and
\* its table are those of the coordinator, line for line; it knows no
\* latitude, so the wind trend is the northern one and the directions are
\* N to NW.
SensorSagerAlgorithm(d) ==
    LET z_hpa == _get_hpa_level(d.pressure)
        z_wind == _get_wind_dir(d.wind_direction, d.wind_speed)
        z_rumbo == _get_wind_trend(d.wind_direction, d.wind_historic, FALSE)
        z_trend == _get_pressure_trend(d.pressure_change)
        z_nubes == _get_cloud_level(d.cloud_cover, d.raining)
        wind_index == WindIndex(<<"N", "NE", "E", "SE", "S", "SW", "W", "NW">>,
                                z_wind)
        found == SagerLookup(LookupKey(z_rumbo, z_hpa, z_trend, z_nubes))
        f_parsed == ParseCode(found.codes[1])
        w_parsed == IF found.codes[2] # "FF" THEN ParseCode(found.codes[2])
                    ELSE Some(7)
        parse_ok == f_parsed.some /\ w_parsed.some
    IN  [text |-> ForecastText(IF parse_ok THEN f_parsed.v ELSE 3, wind_index,
                               IF parse_ok THEN w_parsed.v ELSE 7),
         hpa_level |-> z_hpa,
         wind_dir |-> z_wind,
         wind_trend |-> WindTrendName(z_rumbo),
         pressure_trend |-> PressureTrendName(z_trend),
         cloud_level |-> CloudLevelName(z_nubes),
         confidence |-> found.confidence]

\* cache_key: the pressure, in hundredths, to one decimal; the pressure
\* change to two; wind speed, direction and cloud cover, whole numbers
\* here, as they are; wind_historic is not part of it
SensorCacheKey(d) ==
    <<Round1(d.pressure), d.wind_direction, d.wind_speed,
      d.pressure_change, d.cloud_cover, d.raining>>

\* what _get_sensor_data returns: pressure on either side of the border of
\* levels 3 and 4, the wind six hours ago unknown, from the east or as now
CacheReadings ==
    [pressure : {101252, 101253}, wind_direction : {180},
     wind_speed : {10}, wind_historic : {0, 90, 180},
     pressure_change : {200}, cloud_cover : {0}, raining : {FALSE, TRUE}]

\* sensor instances of the module
SensorInstances == 1..2

MaxCacheClock == 8

InitCache ==
    /\ Constructed
    /\ open_meteo_data = NoOpenMeteoData
    /\ latitude = 450
    /\ hass = NoStates
    /\ call = [fn |-> "cache",
               _last_update |-> [i \in SensorInstances |-> None],
               _state |-> [i \in SensorInstances |-> <<"Initializing...">>],
               _FORECAST_CACHE |-> <<>>,
               _LAST_CALCULATION |-> None,
               t |-> 0,
               served |-> None]

\* SagerSensor.update of instance i, dt minutes after the previous update
\* of any instance, _update_interval being one minute
SagerSensor_update_cached ==
    /\ call.fn = "cache"
    /\ \E i \in SensorInstances, dt \in {0, 2, 6}, d \in CacheReadings :
          LET t == call.t + dt
              cache_key == SensorCacheKey(d)
              hit == /\ cache_key \in DOMAIN call._FORECAST_CACHE
                     /\ call._LAST_CALCULATION.some
                     /\ t - call._LAST_CALCULATION.v < CACHE_DURATION_MINUTES
              forecast == IF hit THEN call._FORECAST_CACHE[cache_key]
                          ELSE SensorSagerAlgorithm(d)
          IN  /\ t <= MaxCacheClock
              /\ IF call._last_update[i].some
                    /\ t - call._last_update[i].v < 1
                 THEN call' = [call EXCEPT !.t = t, !.served = None]
                 ELSE call' = [call EXCEPT
                         !._state[i] = forecast.text,
                         !._last_update[i] = Some(t),
                         !._FORECAST_CACHE =
                             IF hit THEN @ ELSE DictSet(@, cache_key, forecast),
                         !._LAST_CALCULATION = IF hit THEN @ ELSE Some(t),
                         !.t = t,
                         !.served = Some([hit |-> hit, forecast |-> forecast,
                                          data |-> d])]
    /\ UNCHANGED coordinator_vars

NextCache == SagerSensor_update_cached

SpecCache == InitCache /\ [][NextCache]_vars

\* C28: whenever SagerSensor.update serves the forecast from the module's
\* cache, it is the forecast _sager_algorithm would compute from the sensor
\* data read in that same update, for any sequence of updates and readings
\* and any number of instances sharing the cache.
C28_CacheCoherent ==
    (call.fn = "cache" /\ call.served.some /\ call.served.v.hit) =>
        call.served.v.forecast = SensorSagerAlgorithm(call.served.v.data)

-----------------------------------------------------------------------------
(* The first refresh and the started event (__init__.py), step by step *)

\* the entry before hass.config_entries.async_setup: no listener, no
\* refresh waiting, nothing counted
NotSetUp(is_running, started) ==
    [fn |-> "started", is_running |-> is_running, started |-> started,
     state |-> "NOT_LOADED", deferred |-> FALSE, listener |-> "none",
     _listener_fired |-> FALSE, refreshing |-> FALSE,
     setup_refreshes |-> 0, started_refreshes |-> 0, cancel_calls |-> 0,
     started_at_unload |-> FALSE]

\* Home Assistant is not running, starting (running, the started event
\* still to come) or started
InitStarted ==
    /\ latitude = 450
    /\ config_data \in Configs
    /\ hass \in HassStates(config_data)
    /\ open_meteo_data = NoOpenMeteoData
    /\ open_meteo_last_fetch = None
    /\ open_meteo_failures = 0
    /\ last_update_success = TRUE
    /\ data = NoData
    /\ now = 0
    /\ fetch_outcome = "none"
    /\ \E is_running \in BOOLEAN, started \in BOOLEAN :
          /\ started => is_running
          /\ call = NotSetUp(is_running, started)

\* async_setup_entry: the refresh at once when Home Assistant is running,
\* the listener for the started event when it is not
async_setup_entry_steps ==
    /\ call.fn = "started"
    /\ call.state = "NOT_LOADED"
    /\ call.listener = "none"
    /\ call.setup_refreshes = 0
    /\ IF call.is_running
       THEN \E outcome \in FETCH_OUTCOMES, response \in Responses :
              \E cycle \in {UpdateOf(NewCoordinator, outcome, response)} :
                 /\ SetCoordinator(Refreshed(NewCoordinator, cycle))
                 /\ call' = [call EXCEPT !.state = "LOADED",
                                         !.setup_refreshes = @ + 1]
       ELSE /\ UNCHANGED coordinator_vars
            /\ call' = [call EXCEPT !.state = "LOADED", !.deferred = TRUE,
                                    !.listener = "pending",
                                    !._listener_fired = FALSE]

\* the listener that starts its refresh without recording that it fired
RefreshOnStartedUnrecorded(c) ==
    [c EXCEPT !.refreshing = TRUE, !.started_refreshes = @ + 1]

\* _refresh_on_started up to its await
RefreshOnStartedBegins(c) ==
    [c EXCEPT !._listener_fired = TRUE, !.refreshing = TRUE,
              !.started_refreshes = @ + 1]

\* EVENT_HOMEASSISTANT_STARTED: Home Assistant is running, and a listener
\* of async_listen_once removes itself and runs
homeassistant_started ==
    /\ call.fn = "started"
    /\ ~call.started
    /\ call' = IF call.listener = "pending"
               THEN RefreshOnStartedBegins(
                        [call EXCEPT !.started = TRUE, !.is_running = TRUE,
                                     !.listener = "removed"])
               ELSE [call EXCEPT !.started = TRUE, !.is_running = TRUE]
    /\ UNCHANGED coordinator_vars

\* await coordinator.async_refresh() of _refresh_on_started returns
_refresh_on_started_returns ==
    /\ call.fn = "started"
    /\ call.refreshing
    /\ \E outcome \in FETCH_OUTCOMES, response \in Responses :
          \E cycle \in {UpdateOf(RuntimeData, outcome, response)} :
             SetCoordinator(Refreshed(RuntimeData, cycle))
    /\ call' = [call EXCEPT !.refreshing = FALSE]

\* _cancel_if_pending
_cancel_if_pending(c) ==
    IF ~c._listener_fired
    THEN [c EXCEPT !.listener = "cancelled", !.cancel_calls = @ + 1]
    ELSE c

\* async_unload_entry and the callbacks of entry.async_on_unload, at any
\* time after setup, the refresh of the listener running or not
async_unload_entry_steps ==
    /\ call.fn = "started"
    /\ call.state = "LOADED"
    /\ call' = [(IF call.deferred THEN _cancel_if_pending(call) ELSE call)
                   EXCEPT !.state = "UNLOADED",
                          !.started_at_unload = call.started]
    /\ UNCHANGED coordinator_vars

NextStarted ==
    \/ async_setup_entry_steps
    \/ homeassistant_started
    \/ _refresh_on_started_returns
    \/ async_unload_entry_steps

SpecStarted == InitStarted /\ [][NextStarted]_vars

\* C29: set up while Home Assistant is not running, the entry refreshes
\* nothing during setup and the started event, reaching the listener,
\* triggers exactly one refresh; set up while it is running, exactly one
\* refresh happens during setup; on unload the listener's cancel function
\* is called if and only if the started event has not fired yet, also when
\* the unload comes while the refresh the event started is running.
C29_DeferredFirstRefresh ==
    (call.fn = "started" /\ call.state # "NOT_LOADED") =>
        /\ call.deferred =>
              /\ call.setup_refreshes = 0
              /\ call.started_refreshes
                    = (IF call.listener = "removed" THEN 1 ELSE 0)
              /\ (call.started /\ call.state = "LOADED") =>
                    call.started_refreshes = 1
        /\ ~call.deferred =>
              call.setup_refreshes = 1 /\ call.started_refreshes = 0
        /\ (call.deferred /\ call.state = "UNLOADED") =>
              (call.cancel_calls = 1 <=> ~call.started_at_unload)
        /\ call.cancel_calls <= 1

\* set up before the start, unloaded while the refresh of the started
\* event is still running: no cancel call
C29_Witness ==
    /\ call.fn = "started"
    /\ call.deferred
    /\ call.state = "UNLOADED"
    /\ call.refreshing
    /\ call.started_refreshes = 1
    /\ call.cancel_calls = 0

-----------------------------------------------------------------------------
(* The codes _sager_algorithm emits, row by row of its table *)

\* the shower suffix put on every code
SagerCodesSuffixAll(lookup_key, wind_index, temperature) ==
    LET found == SagerLookup(lookup_key)
        f_parsed == ParseCode(found.codes[1])
        w_parsed == IF found.codes[2] # "FF" THEN ParseCode(found.codes[2])
                    ELSE Some(7)
        parse_ok == f_parsed.some /\ w_parsed.some
        forecast_idx == IF parse_ok THEN f_parsed.v ELSE 3
        wind_idx == IF parse_ok THEN w_parsed.v ELSE 7
        base_code == IF forecast_idx < Len(FORECAST_CODES)
                     THEN FORECAST_CODES[forecast_idx + 1]
                     ELSE "d"
    IN  [forecast_code |->
             IF temperature.some
             THEN base_code \o (IF temperature.v > TEMP_THRESHOLD_FLURRIES
                                THEN "1" ELSE "2")
             ELSE base_code,
         forecast_idx |-> forecast_idx,
         wind_idx |-> wind_idx,
         wind_index |-> wind_index]

\* _sager_algorithm from the table lookup to the wind keys: the emitted
\* forecast code and the three indices
SagerCodes(lookup_key, wind_index, temperature) ==
    LET found == SagerLookup(lookup_key)
        f_parsed == ParseCode(found.codes[1])
        w_parsed == IF found.codes[2] # "FF" THEN ParseCode(found.codes[2])
                    ELSE Some(7)
        parse_ok == f_parsed.some /\ w_parsed.some
        forecast_idx == IF parse_ok THEN f_parsed.v ELSE 3
        wind_idx == IF parse_ok THEN w_parsed.v ELSE 7
        base_code == IF forecast_idx < Len(FORECAST_CODES)
                     THEN FORECAST_CODES[forecast_idx + 1]
                     ELSE "d"
    IN  [forecast_code |->
             IF base_code \in SHOWER_FORECAST_CODES /\ temperature.some
             THEN base_code \o (IF temperature.v > TEMP_THRESHOLD_FLURRIES
                                THEN "1" ELSE "2")
             ELSE base_code,
         forecast_idx |-> forecast_idx,
         wind_idx |-> wind_idx,
         wind_index |-> wind_index]

\* every key of the table, and one that is not in it
TableKeys == DOMAIN _get_complete_forecast_map \cup {"0000"}

\* no temperature sensor, and readings below, at and above the threshold
CodeTemperatures ==
    {None} \cup {Some(TEMP_THRESHOLD_FLURRIES + k) : k \in {-1, 0, 1}}

InitCodes ==
    /\ Constructed
    /\ latitude = 450
    /\ hass = NoStates
    /\ open_meteo_data = NoOpenMeteoData
    /\ \E lookup_key \in TableKeys, temperature \in CodeTemperatures,
          z_wind \in {"N", "SW", "NW", WIND_CARDINAL_CALM} :
          call = [fn |-> "sager_codes", lookup_key |-> lookup_key,
                  temperature |-> temperature, z_wind |-> z_wind,
                  done |-> FALSE, ret |-> <<>>]

call_sager_codes ==
    /\ call.fn = "sager_codes"
    /\ Return(SagerCodes(call.lookup_key,
                         WindIndex(_get_zone_directions(latitude), call.z_wind),
                         call.temperature))

NextCodes == call_sager_codes

SpecCodes == InitCodes /\ [][NextCodes]_vars

\* C30: for every table entry and the default entry, and for every
\* temperature (absent, above 2.0, at or below 2.0), the forecast code
\* emitted by _sager_algorithm is a key of FORECAST_CONDITIONS, so that no
\* reader falls back to "partlycloudy" for an unknown code, and the
\* wind-velocity and wind-direction indices are within their key tables.
C30_EmittedCodesAreKeys ==
    (call.fn = "sager_codes" /\ call.done) =>
        /\ call.ret.forecast_code \in DOMAIN FORECAST_CONDITIONS
        /\ call.ret.forecast_idx \in 0..(Len(FORECAST_CODES) - 1)
        /\ call.ret.wind_idx \in 0..(Len(WIND_VELOCITY_KEYS) - 1)
        /\ call.ret.wind_index \in 0..(Len(WIND_DIRECTION_KEYS) - 1)

\* a shower row of the table read at the threshold temperature
C30_Witness ==
    /\ call.fn = "sager_codes"
    /\ call.done
    /\ call.lookup_key \in DOMAIN _get_complete_forecast_map
    /\ call.temperature = Some(TEMP_THRESHOLD_FLURRIES)
    /\ call.ret.forecast_code = "j2"
=============================================================================
